---- MODULE Spec2Model ----
(***************************************************************************)
(* Managed-network lifecycle controller of the daemon                      *)
(* (cmd/incusd/networks.go): the create protocol (define on target,        *)
(* cluster commit with fan-out, single-node create), local actuation and   *)
(* update, over a replicated catalog shared by the cluster members.        *)
(***************************************************************************)
EXTENDS Integers, FiniteSets, Sequences, TLC

(***************************************************************************)
(* Universe of the model.                                                  *)
(***************************************************************************)
AllMembers == {"a", "b"}
Names == {"n1"}
\* Every name a catalog record can have: the names of the create requests,
\* the reserved word, and a second name for renames.
Catalog == Names \cup {"n2", "none"}
Types == {"bridge", "ovn"}
NodeKeys == {"parent"}
GlobalKeys == {"mtu"}
Keys == NodeKeys \cup GlobalKeys
Unset == "-"
EmptyCfg == [k \in Keys |-> Unset]

\* Request inputs.
Cfg(k, v) == [EmptyCfg EXCEPT ![k] = v]
\* Odd bodies: one for each way of failing the quick checks, and one that
\* relies on the default type.
OddRequests ==
    [name : {"", "none"}, type : {"bridge"}, config : {EmptyCfg}]
    \cup [name : Names, type : {"", "bogus"}, config : {EmptyCfg}]
DefineRequests ==
    [name : Names, type : {"bridge"},
     config : {EmptyCfg, Cfg("parent", "1"), Cfg("mtu", "1")}]
    \cup [name : Names, type : {"ovn"}, config : {EmptyCfg}]
    \cup OddRequests
CreateRequests ==
    [name : Names, type : Types,
     config : {EmptyCfg, Cfg("mtu", "1"), Cfg("parent", "1")}]
    \cup OddRequests
UpdateConfigs == [Keys -> {Unset, "1"}]
Methods == {"PUT", "PATCH"}
EventCap == 2
EventKinds == {"network-deleted", "network-renamed", "network-updated"}
NoUpdate == [seq |-> 0]

VARIABLES members, net, row, drv, lock, h, healthy, authz, created_events,
          creators, failures, proj, events, upd, description, got,
          initNetworks, warnings, startup, shutdown

vars == <<members, net, row, drv, lock, h, healthy, authz, created_events,
          creators, failures, proj, events, upd, description, got,
          initNetworks, warnings, startup, shutdown>>

\* What the read handlers and the startup engine add to the state: the
\* description of each record and the last response of a GET, and the
\* buckets, the warnings and the position of networkStartup, and the
\* position of networkShutdown.
readVars == <<description, got>>
startVars == <<initNetworks, warnings, startup, shutdown>>

\* creators and failures record history for the properties only: the
\* networks whose inserting request has been answered with success, and the
\* networks for which a step of a commit has failed since their global
\* config was inserted.

\* A joiner is a member creating its networks before it joins a cluster.
ClientTypes == IF Cardinality(members) = 1 THEN {"normal", "joiner"} ELSE {"normal"}

(***************************************************************************)
(* Config classifier (db.IsNodeSpecificNetworkConfig and                   *)
(* db.StripNodeSpecificNetworkConfig).                                     *)
(***************************************************************************)
IsNodeSpecificNetworkConfig(k) == k \in NodeKeys

StripNodeSpecificNetworkConfig(c) ==
    [k \in Keys |-> IF IsNodeSpecificNetworkConfig(k) THEN Unset ELSE c[k]]

NodeSpecificPart(c) ==
    [k \in Keys |-> IF IsNodeSpecificNetworkConfig(k) THEN c[k] ELSE Unset]

KeysOf(c) == {k \in Keys : c[k] # Unset}

\* maps.Copy(dst, src): the keys of src overwrite those of dst.
MapsCopy(dst, src) == [k \in Keys |-> IF src[k] # Unset THEN src[k] ELSE dst[k]]

(***************************************************************************)
(* Driver interface: capabilities and defaulting per network type.         *)
(***************************************************************************)
NodeSpecificConfig(t) == t = "bridge"

FillConfig(t, c) ==
    IF t = "bridge" /\ c["mtu"] = Unset THEN [c EXCEPT !["mtu"] = "1"] ELSE c

(***************************************************************************)
(* Catalog records.                                                        *)
(***************************************************************************)
NoNet == [present |-> FALSE, type |-> "", status |-> "", config |-> EmptyCfg]
NoRow == [st |-> "absent", cfg |-> EmptyCfg]
NoInfo == [present |-> FALSE, type |-> "", status |-> "", config |-> EmptyCfg]
NoNodeConfigs == [m \in AllMembers |-> EmptyCfg]

\* The record as one member sees it: global config merged with its fragment.
NetConfig(n, m) == MapsCopy(net[n].config, row[n][m].cfg)

GetNetworkInAnyState(n, m) ==
    IF net[n].present
    THEN [present |-> TRUE, type |-> net[n].type, status |-> net[n].status,
          config |-> StripNodeSpecificNetworkConfig(NetConfig(n, m))]
    ELSE NoInfo

LocalStatus(n, m) == row[n][m].st

Locations(n) == {m \in AllMembers : row[n][m].st # "absent"}

\* Outcome of CreatePendingNetwork(member, name, type, config) in the
\* current catalog state.
CreatePendingResult(n, t, target) ==
    IF ~net[n].present THEN "ok"
    ELSE IF net[n].status \notin {"pending", "errored"} THEN "db_error"
    ELSE IF net[n].type # t THEN "db_error"
    ELSE IF row[n][target].st # "absent" THEN "already_defined"
    ELSE "ok"

NetAfterPending(n, t) ==
    IF net[n].present THEN net[n]
    ELSE [present |-> TRUE, type |-> t, status |-> "pending", config |-> EmptyCfg]

(***************************************************************************)
(* Request handlers.                                                       *)
(***************************************************************************)
Idle == [pc |-> "idle", name |-> "", type |-> "", config |-> EmptyCfg,
         ctype |-> "", info |-> NoInfo, nodeConfigs |-> NoNodeConfigs,
         todo |-> {}, ferr |-> FALSE, res |-> "", inserted |-> FALSE,
         used |-> FALSE, to |-> ""]

\* A handler that has returned: the response and what it was about.
Done(n, res, inserted) ==
    [Idle EXCEPT !.pc = "done", !.name = IF n \in Names THEN n ELSE "",
                 !.res = res, !.inserted = inserted]

\* A handler past its last use of the request body and of the loaded record.
Acting(req, pc, inserted, nodeConfigs) ==
    [Idle EXCEPT !.pc = pc, !.name = req.name, !.ctype = req.ctype,
                 !.inserted = inserted, !.nodeConfigs = nodeConfigs]

\* The driver's ValidateName: a name with a colon is refused.
ValidateName(name) == name # "a:b"

\* The quick checks of networksPost on the request alone; "" when it passes.
QuickChecks(name, type) ==
    IF name = "" THEN "bad_request"
    ELSE IF name = "none" THEN "bad_request"
    ELSE IF type \notin Types \cup {""} THEN "bad_request"
    ELSE IF ~ValidateName(name) THEN "bad_request"
    ELSE ""

\* The project the requests are made in, and the limits.networks of a
\* project other than the default one.
ProjectDefaultName == "default"
NetworksLimit == 1

\* The default type: bridge in the default project, else ovn.
ReqType(type) ==
    IF type = "" THEN (IF proj # ProjectDefaultName THEN "ovn" ELSE "bridge") ELSE type

\* Info().Projects of the driver.
Projects(t) == t = "ovn"

\* tx.GetNetworks: the names of the records of the project.
GetNetworks == {n \in Catalog : net[n].present}

\* The limits.networks test of networksPost.
LimitReached(name) ==
    /\ proj # ProjectDefaultName
    /\ name \notin GetNetworks
    /\ Cardinality(GetNetworks) >= NetworksLimit

\* The checks of networksPost on the request and on the project; "" when
\* they pass.
RequestChecks(name, type) ==
    IF QuickChecks(name, type) # "" THEN QuickChecks(name, type)
    ELSE IF proj # ProjectDefaultName /\ ~Projects(ReqType(type)) THEN "bad_request"
    ELSE IF LimitReached(name) THEN "bad_request"
    ELSE ""

\* The event stream, as a count per network that stops at EventCap.
BumpEvent(ev, n) == [ev EXCEPT ![n] = IF @ < EventCap THEN @ + 1 ELSE @]

\* Before any read and before networkStartup has run.
NoGet == [kind |-> ""]
Priorities == {0, 1, 2}
NotStarted == [pc |-> "off"]
NotShutDown == [pc |-> "off"]

InitRest ==
    /\ description = [n \in Catalog |-> ""]
    /\ got = NoGet
    /\ initNetworks = [p \in Priorities |-> {}]
    /\ warnings = [n \in Catalog |-> ""]
    /\ startup = NotStarted
    /\ shutdown = NotShutDown

InitIn(project) ==
    /\ members \in {{"a"}, AllMembers}
    /\ net = [n \in Catalog |-> NoNet]
    /\ row = [n \in Catalog |-> [m \in AllMembers |-> NoRow]]
    /\ drv = [n \in Catalog |-> [m \in AllMembers |-> "none"]]
    /\ lock = [m \in AllMembers |-> "free"]
    /\ h = [m \in AllMembers |-> Idle]
    /\ healthy = FALSE
    /\ authz = {}
    /\ created_events = [n \in Catalog |-> 0]
    /\ creators = {}
    /\ failures = {}
    /\ proj = project
    /\ events = [k \in EventKinds |-> 0]
    /\ upd = NoUpdate
    /\ InitRest

Init == InitIn(ProjectDefaultName)

(***************************************************************************)
(* networksPost with ?target=<member>: define the network on one member.   *)
(***************************************************************************)
\* Faulty variant: any key is accepted in a definition on a target.
DefineKeyScopeOk_Any(c) == TRUE

DefineKeyScopeOk(c) == \A k \in KeysOf(c) : IsNodeSpecificNetworkConfig(k)

\* Faulty variant: a target is accepted for every network type.
DefineTypeOk_Any(t) == TRUE

\* A target needs a driver with node-specific config.
DefineTypeOk(t) == NodeSpecificConfig(t)

DefineOnTargetReq(m, body, target) ==
    /\ m \in members
    /\ h[m].pc \in {"idle", "done"}
    /\ lock[m] = "free"
    /\  LET name == body.name
            c == body.config
            t == ReqType(body.type)
            q == RequestChecks(name, body.type)
        IN
        IF q # "" THEN
            /\ h' = [h EXCEPT ![m] = Done(name, q, FALSE)]
            /\ UNCHANGED <<net, row, authz, created_events>>
        ELSE IF ~DefineTypeOk(t) THEN
            /\ h' = [h EXCEPT ![m] = Done(name, "bad_request", FALSE)]
            /\ UNCHANGED <<net, row, authz, created_events>>
        ELSE IF ~DefineKeyScopeOk(c) THEN
            /\ h' = [h EXCEPT ![m] = Done(name, "bad_request", FALSE)]
            /\ UNCHANGED <<net, row, authz, created_events>>
        ELSE
            LET exists == net[name].present
                r == CreatePendingResult(name, t, target)
            IN
            IF r # "ok" THEN
                /\ h' = [h EXCEPT ![m] =
                           Done(name, IF r = "already_defined" THEN "conflict" ELSE r, FALSE)]
                /\ UNCHANGED <<net, row, authz, created_events>>
            ELSE
                /\ net' = [net EXCEPT ![name] = NetAfterPending(name, t)]
                /\ row' = [row EXCEPT ![name][target] = [st |-> "pending", cfg |-> c]]
                /\ authz' = IF exists THEN authz ELSE authz \cup {name}
                /\ created_events' = IF exists THEN created_events
                                     ELSE BumpEvent(created_events, name)
                /\ h' = [h EXCEPT ![m] = Done(name, "ok", FALSE)]
    /\ UNCHANGED <<readVars, startVars, proj, events, upd, members, drv, lock, healthy, creators, failures>>

DefineOnTarget(m) ==
    \E body \in DefineRequests, target \in members : DefineOnTargetReq(m, body, target)

(***************************************************************************)
(* doNetworksCreate on member m: Validate, the local status test, driver   *)
(* Create, driver Start (not for a joiner), NetworkNodeCreated; the revert *)
(* calls driver Delete when a step after Create fails.                     *)
(***************************************************************************)
\* Faulty variant: the test of the local status is missing.
DoCreateOutcomes_NoSkip(n, m, ctype) ==
    (IF row[n][m].st # "absent" THEN {"ok"} ELSE {"mark_failed"})
    \cup (IF healthy THEN {}
          ELSE {"validate_failed", "create_failed", "mark_failed"}
               \cup (IF ctype # "joiner" THEN {"start_failed"} ELSE {}))

DoCreateOutcomes(n, m, ctype) ==
    (IF healthy THEN {} ELSE {"validate_failed"})
    \cup (IF LocalStatus(n, m) = "created" THEN {"skip"}
          ELSE (IF row[n][m].st # "absent" THEN {"ok"} ELSE {"mark_failed"})
               \cup (IF healthy THEN {}
                     ELSE {"create_failed", "mark_failed"}
                          \cup (IF ctype # "joiner" THEN {"start_failed"} ELSE {})))

\* Faulty variant: the revert deletes the driver resource of every member.
DrvAfterCreate_AllMembers(n, m, ctype, out) ==
    IF out = "ok"
    THEN [drv EXCEPT ![n][m] = IF ctype = "joiner" THEN "created" ELSE "started"]
    ELSE IF out \in {"start_failed", "mark_failed"}
    THEN [drv EXCEPT ![n] = [p \in AllMembers |-> "none"]]
    ELSE drv

\* Faulty variant: no revert after driver Create.
DrvAfterCreate_NoRevert(n, m, ctype, out) ==
    IF out = "ok"
    THEN [drv EXCEPT ![n][m] = IF ctype = "joiner" THEN "created" ELSE "started"]
    ELSE IF out \in {"start_failed", "mark_failed"}
    THEN [drv EXCEPT ![n][m] = "created"]
    ELSE drv

DrvAfterCreate(n, m, ctype, out) ==
    IF out = "ok"
    THEN [drv EXCEPT ![n][m] = IF ctype = "joiner" THEN "created" ELSE "started"]
    ELSE IF out \in {"start_failed", "mark_failed"}
    THEN [drv EXCEPT ![n][m] = "none"]
    ELSE drv

RowAfterCreate(n, m, out) ==
    IF out = "ok" THEN [row EXCEPT ![n][m].st = "created"] ELSE row

(***************************************************************************)
(* networksPost without target: quick checks, load of the existing record  *)
(* and choice between the cluster path and the single-node path.           *)
(***************************************************************************)
ClusterPath(info) ==
    Cardinality(members) > 1 \/ (info.present /\ info.status # "created")

BeginCreateReq(m, body, ctype) ==
    /\ m \in members
    /\ h[m].pc \in {"idle", "done"}
    /\ lock[m] = "free"
    /\  LET name == body.name
            c == body.config
            t == ReqType(body.type)
            q == RequestChecks(name, body.type)
            info == GetNetworkInAnyState(name, m)
            req == [Idle EXCEPT !.name = name, !.type = t, !.config = c,
                                !.ctype = ctype, !.info = info]
        IN
        IF q # "" THEN
            /\ h' = [h EXCEPT ![m] = Done(name, q, FALSE)]
            /\ UNCHANGED lock
        ELSE IF ClusterPath(info) THEN
            /\ h' = [h EXCEPT ![m] =
                       [req EXCEPT !.pc = IF ~NodeSpecificConfig(t) /\ ctype # "joiner"
                                          THEN "pending_all" ELSE "commit"]]
            /\ lock' = [lock EXCEPT ![m] = "client"]
        ELSE IF info.present THEN
            /\ h' = [h EXCEPT ![m] = Done(name, "conflict", FALSE)]
            /\ UNCHANGED lock
        ELSE
            /\ h' = [h EXCEPT ![m] =
                       [req EXCEPT !.pc = "single_insert",
                                   !.config = IF ctype # "joiner" THEN FillConfig(t, c) ELSE c]]
            /\ lock' = [lock EXCEPT ![m] = "client"]
    /\ UNCHANGED <<readVars, startVars, proj, events, upd, members, net, row, drv, healthy, authz, created_events,
                   creators, failures>>

BeginCreate(m) ==
    \E body \in CreateRequests, ctype \in ClientTypes : BeginCreateReq(m, body, ctype)

\* The handler returns: the deferred unlock runs with the response.
Return(m, res) ==
    /\ h' = [h EXCEPT ![m] = Done(h[m].name, res, h[m].inserted)]
    /\ lock' = [lock EXCEPT ![m] = "free"]

(***************************************************************************)
(* Cluster path, driver without node-specific config: a pending row for    *)
(* every member, the authorizer entry and the lifecycle event.             *)
(***************************************************************************)
PendingAll(m) ==
    /\ h[m].pc = "pending_all"
    /\ LET n == h[m].name
           t == h[m].type
           r == IF ~net[n].present THEN "ok"
                ELSE IF net[n].status \notin {"pending", "errored"} THEN "db_error"
                ELSE IF net[n].type # t THEN "db_error"
                ELSE "ok"
       IN
       IF r # "ok" THEN
           /\ Return(m, r)
           /\ UNCHANGED <<net, row, authz, created_events>>
       ELSE
           /\ net' = [net EXCEPT ![n] = NetAfterPending(n, t)]
           /\ row' = [row EXCEPT ![n] =
                        [p \in AllMembers |->
                           IF p \in members /\ row[n][p].st = "absent"
                           THEN [st |-> "pending", cfg |-> EmptyCfg]
                           ELSE row[n][p]]]
           /\ authz' = authz \cup {n}
           /\ created_events' = BumpEvent(created_events, n)
           /\ h' = [h EXCEPT ![m].pc = "commit"]
           /\ UNCHANGED lock
    /\ UNCHANGED <<readVars, startVars, proj, events, upd, members, drv, healthy, creators, failures>>

(***************************************************************************)
(* networksPostCluster: the checks on the request and the transaction that *)
(* inserts the global config and marks the record errored.                 *)
(***************************************************************************)
\* Faulty variant: no record counts as partially created.
networkPartiallyCreated_Never(info) == FALSE

networkPartiallyCreated(info) ==
    \/ info.status = "errored"
    \/ \E k \in KeysOf(info.config) : ~IsNodeSpecificNetworkConfig(k)

CommitKeyScopeOk(c) == \A k \in KeysOf(c) : ~IsNodeSpecificNetworkConfig(k)

\* Faulty variant: the test for a record that is already created is missing.
CommitPrecheck_NoCreatedCheck(req) ==
    IF ~CommitKeyScopeOk(req.config) THEN "node_key"
    ELSE IF req.info.present /\ req.type # req.info.type THEN "type_mismatch"
    ELSE ""

CommitPrecheck(req) ==
    IF ~CommitKeyScopeOk(req.config) THEN "node_key"
    ELSE IF req.info.present /\ req.info.status = "created" THEN "already_created"
    ELSE IF req.info.present /\ req.type # req.info.type THEN "type_mismatch"
    ELSE ""

\* tx.NetworkNodeConfigs succeeds when the record is pending and every
\* member has a row for it.
NodeConfigsDefined(n) ==
    /\ net[n].status = "pending"
    /\ \A p \in members : row[n][p].st # "absent"

NetworkNodeConfigs(n) == [p \in AllMembers |-> row[n][p].cfg]

\* Faulty variant: the call of NetworkNodeConfigs is missing.
CommitTxnResult_NoNodeConfigs(req) ==
    IF req.info.present /\ networkPartiallyCreated(req.info)
    THEN IF KeysOf(req.config) # {} THEN "partial_config" ELSE "skip"
    ELSE IF ~net[req.name].present THEN "not_pending"
    ELSE "insert"

\* Faulty variant: a config in the request is not refused when the record is
\* partially created.
CommitTxnResult_NoConfigCheck(req) ==
    IF req.info.present /\ networkPartiallyCreated(req.info)
    THEN "skip"
    ELSE IF ~net[req.name].present THEN "not_pending"
    ELSE IF ~NodeConfigsDefined(req.name) THEN "db_error"
    ELSE "insert"

\* What the transaction does: "skip", an error, or "insert".
CommitTxnResult(req) ==
    IF req.info.present /\ networkPartiallyCreated(req.info)
    THEN IF KeysOf(req.config) # {} THEN "partial_config" ELSE "skip"
    ELSE IF ~net[req.name].present THEN "not_pending"
    ELSE IF ~NodeConfigsDefined(req.name) THEN "db_error"
    ELSE "insert"

\* Faulty variant: the record is not marked errored.
CommitInsert_NoPreMark(rec, req) ==
    [rec EXCEPT !.config = MapsCopy(@, FillConfig(req.type, req.config))]

\* Faulty variant: the global config is not inserted.
CommitInsert_NoConfig(rec, req) == [rec EXCEPT !.status = "errored"]

\* FillConfig, CreateNetworkConfig(id, 0, config) and NetworkErrored.
CommitInsert(rec, req) ==
    [rec EXCEPT !.config = MapsCopy(@, FillConfig(req.type, req.config)),
                !.status = "errored"]

CommitTxn(m) ==
    /\ h[m].pc = "commit"
    /\ LET req == h[m]
           n == req.name
           pre == CommitPrecheck(req)
           r == CommitTxnResult(req)
       IN
       IF pre # "" THEN
           /\ Return(m, pre)
           /\ UNCHANGED net
       ELSE IF r = "skip" THEN
           /\ h' = [h EXCEPT ![m] = Acting(req, "local", req.inserted, NoNodeConfigs)]
           /\ UNCHANGED <<net, lock>>
       ELSE IF r = "insert" THEN
           /\ net' = [net EXCEPT ![n] = CommitInsert(@, req)]
           /\ h' = [h EXCEPT ![m] = Acting(req, "local", TRUE, NetworkNodeConfigs(n))]
           /\ UNCHANGED lock
       ELSE
           /\ Return(m, r)
           /\ UNCHANGED net
    /\ UNCHANGED <<readVars, startVars, proj, events, upd, members, row, drv, healthy, authz, created_events,
                   creators, failures>>

(***************************************************************************)
(* Single-node path: insert the record; the revert deletes it again.       *)
(***************************************************************************)
DeleteNetworkRows(n) == [row EXCEPT ![n] = [p \in AllMembers |-> NoRow]]

\* Faulty variant: the revert of the single-node path is never installed.
DeleteNetwork_NoRevert(n) == net

\* tx.DeleteNetwork: the record is gone from the catalog.
DeleteNetwork(n) == [net EXCEPT ![n] = NoNet]

\* tx.CreateNetwork: the record with its global status, the row of the
\* local member, and the config split by the classifier.
CreateNetwork(t, c) ==
    [present |-> TRUE, type |-> t, status |-> "created",
     config |-> StripNodeSpecificNetworkConfig(c)]

SingleInsert(m) ==
    /\ h[m].pc = "single_insert"
    /\ LET n == h[m].name IN
       IF net[n].present THEN
           /\ Return(m, "db_error")
           /\ UNCHANGED <<net, row>>
       ELSE
           /\ net' = [net EXCEPT ![n] = CreateNetwork(h[m].type, h[m].config)]
           /\ row' = [row EXCEPT ![n][m] =
                        [st |-> "pending", cfg |-> NodeSpecificPart(h[m].config)]]
           /\ h' = [h EXCEPT ![m] = Acting(h[m], "single_local", TRUE, NoNodeConfigs)]
           /\ UNCHANGED lock
    /\ UNCHANGED <<readVars, startVars, proj, events, upd, members, drv, healthy, authz, created_events, creators, failures>>

(***************************************************************************)
(* Local actuation by the member that serves the request, on the cluster   *)
(* path (before the fan-out) and on the single-node path.                  *)
(***************************************************************************)
Peers(m) == members \ {m}

LocalCreate(m) ==
    /\ h[m].pc = "local"
    /\ LET n == h[m].name IN
       IF ~net[n].present THEN
           /\ Return(m, "actuation_failed")
           /\ failures' = failures \cup {n}
           /\ UNCHANGED <<row, drv>>
       ELSE \E out \in DoCreateOutcomes(n, m, h[m].ctype)
                       \cup (IF healthy THEN {} ELSE {"notifier_failed"}) :
           /\ drv' = DrvAfterCreate(n, m, h[m].ctype, out)
           /\ row' = RowAfterCreate(n, m, out)
           /\ IF out \in {"ok", "skip"} THEN
                  \* netConfig, captured before the actuation and stripped
                  /\ h' = [h EXCEPT ![m].pc = "fanout", ![m].todo = Peers(m),
                                    ![m].config =
                                        StripNodeSpecificNetworkConfig(NetConfig(n, m))]
                  /\ UNCHANGED <<lock, failures>>
              ELSE
                  /\ Return(m, "actuation_failed")
                  /\ failures' = failures \cup {n}
    /\ UNCHANGED <<readVars, startVars, proj, events, upd, members, net, healthy, authz, created_events, creators>>

SingleLocalCreate(m) ==
    /\ h[m].pc = "single_local"
    /\ LET n == h[m].name IN
       IF ~net[n].present THEN
           /\ Return(m, "actuation_failed")
           /\ UNCHANGED <<net, row, drv, authz, created_events, creators>>
       ELSE \E out \in DoCreateOutcomes(n, m, h[m].ctype) :
           /\ drv' = DrvAfterCreate(n, m, h[m].ctype, out)
           /\ IF out \in {"ok", "skip"} THEN
                  /\ row' = RowAfterCreate(n, m, out)
                  /\ authz' = authz \cup {n}
                  /\ created_events' = BumpEvent(created_events, n)
                  /\ creators' = creators \cup {n}
                  /\ Return(m, "ok")
                  /\ UNCHANGED net
              ELSE
                  \* reverter.Fail(): DeleteNetwork
                  /\ net' = DeleteNetwork(n)
                  /\ row' = DeleteNetworkRows(n)
                  /\ Return(m, "actuation_failed")
                  /\ UNCHANGED <<authz, created_events, creators>>
    /\ UNCHANGED <<readVars, startVars, proj, events, upd, members, healthy, failures>>

(***************************************************************************)
(* Fan-out: the create notification served by a peer (networksPost with    *)
(* the notifier user agent, under the peer's own create lock), and the     *)
(* global created marker once every peer has answered.                     *)
(***************************************************************************)
Reply(m, p, failed) ==
    /\ h' = [h EXCEPT ![m].todo = @ \ {p}, ![m].ferr = @ \/ failed]
    /\ failures' = IF failed THEN failures \cup {h[m].name} ELSE failures

\* Faulty variant: the requester sends its own effective config.
PeerPayload_Local(m, p) == NetConfig(h[m].name, m)

\* Faulty variant: the config of the requester is not stripped of its
\* node-specific keys before the fragment of the peer is merged in.
PeerPayload_NoStrip(m, p) ==
    MapsCopy(NetConfig(h[m].name, m), h[m].nodeConfigs[p])

\* The config of the create request sent to peer p: the stripped config
\* merged with nodeConfigs[p].
PeerPayload(m, p) == MapsCopy(h[m].config, h[m].nodeConfigs[p])

PeerCreate(m, p) ==
    /\ h[m].pc = "fanout"
    /\ p \in h[m].todo
    /\ lock[p] = "free"
    /\ LET n == h[m].name IN
       IF ~net[n].present THEN
           /\ Reply(m, p, TRUE)
           /\ UNCHANGED <<drv, row>>
       ELSE \E out \in DoCreateOutcomes(n, p, "notifier") :
           /\ drv' = DrvAfterCreate(n, p, "notifier", out)
           /\ row' = RowAfterCreate(n, p, out)
           /\ Reply(m, p, out \notin {"ok", "skip"})
    /\ UNCHANGED <<readVars, startVars, proj, events, upd, members, net, lock, healthy, authz, created_events, creators>>

PeerUnreachable(m, p) ==
    /\ ~healthy
    /\ h[m].pc = "fanout"
    /\ p \in h[m].todo
    /\ Reply(m, p, TRUE)
    /\ UNCHANGED <<readVars, startVars, proj, events, upd, members, net, row, drv, lock, healthy, authz, created_events,
                   creators>>

\* Faulty variant: the marker is written although a peer failed.
FanoutResultStatus_IgnoresErr(failed, status) == "created"

\* Faulty variant: the marker is never written.
FanoutResultStatus_NoMarker(failed, status) == status

\* Faulty variant: a failed fan-out puts the record back to pending.
FanoutResultStatus_Reset(failed, status) == IF failed THEN "pending" ELSE "created"

\* The global status when the notifier has returned: untouched when the
\* hook failed for some peer, else what tx.NetworkCreated writes.
FanoutResultStatus(failed, status) == IF failed THEN status ELSE "created"

FanoutDone(m) ==
    /\ h[m].pc = "fanout"
    /\ h[m].todo = {}
    /\ LET n == h[m].name
           failed == h[m].ferr
       IN
       \E out \in (IF failed THEN {"fanout_failed"}
                   ELSE {"ok"} \cup (IF healthy THEN {} ELSE {"db_error"})) :
           /\ Return(m, out)
           /\ net' = IF out # "db_error" /\ net[n].present
                     THEN [net EXCEPT ![n].status = FanoutResultStatus(failed, @)]
                     ELSE net
           /\ creators' = IF out = "ok" /\ h[m].inserted
                          THEN creators \cup {n} ELSE creators
           /\ failures' = IF out = "ok" THEN failures \ {n} ELSE failures \cup {n}
    /\ UNCHANGED <<readVars, startVars, proj, events, upd, members, row, drv, healthy, authz, created_events>>

(***************************************************************************)
(* networkPut / networkPatch served by member m (the target member when    *)
(* the request names one) and doNetworkUpdate.  The request carries no     *)
(* If-Match header.                                                        *)
(***************************************************************************)
ServerClustered == Cardinality(members) > 1

\* The keys of the request whose value differs from the current one.
ChangedKeys(cur, c) == {k \in KeysOf(c) : cur[k] # c[k]}

PutKeyScopeOk(cur, c, targeted) ==
    IF targeted
    THEN \A k \in ChangedKeys(cur, c) : IsNodeSpecificNetworkConfig(k)
    ELSE \A k \in ChangedKeys(cur, c) : ~IsNodeSpecificNetworkConfig(k)

\* Faulty variant: a PUT without target is not merged with the node-specific
\* keys of the current config.
UpdateMerge_NoNodeMerge(cur, c, targeted, method) ==
    IF method = "PATCH" THEN MapsCopy(cur, c) ELSE c

\* The config doNetworkUpdate hands to Validate and Update.
UpdateMerge(cur, c, targeted, method) ==
    IF ~targeted /\ method # "PATCH" /\ ServerClustered
    THEN MapsCopy(c, NodeSpecificPart(cur))
    ELSE IF method = "PATCH"
    THEN MapsCopy(cur, c)
    ELSE c

\* Faulty variant: the status of the record is not tested.
PutStatusOk_Any(targeted, status) == TRUE

\* The status a request without target needs.
PutStatusOk(targeted, status) == targeted \/ status = "created"

networkPut(m) ==
    /\ m \in members
    /\ \E n \in Names, c \in UpdateConfigs, targeted \in BOOLEAN, method \in Methods :
        LET cur == NetConfig(n, m)
            merged == UpdateMerge(cur, c, targeted, method)
        IN
        /\ net[n].present
        /\ row[n][m].st # "absent"
        /\ PutStatusOk(targeted, net[n].status)
        /\ ServerClustered => PutKeyScopeOk(cur, c, targeted)
        /\ net' = [net EXCEPT ![n].config = StripNodeSpecificNetworkConfig(merged)]
        /\ row' = [row EXCEPT ![n][m].cfg = NodeSpecificPart(merged)]
    /\ UNCHANGED <<readVars, startVars, proj, events, upd, members, drv, lock, h, healthy, authz, created_events,
                   creators, failures>>

(***************************************************************************)
(* Specifications.                                                         *)
(***************************************************************************)
\* The requests and their steps, with faults possible at any time.
Next ==
    \/ \E m \in AllMembers : DefineOnTarget(m)
    \/ \E m \in AllMembers : BeginCreate(m)
    \/ \E m \in AllMembers : PendingAll(m)
    \/ \E m \in AllMembers : CommitTxn(m)
    \/ \E m \in AllMembers : SingleInsert(m)
    \/ \E m \in AllMembers : LocalCreate(m)
    \/ \E m \in AllMembers : SingleLocalCreate(m)
    \/ \E m, p \in AllMembers : PeerCreate(m, p)
    \/ \E m, p \in AllMembers : PeerUnreachable(m, p)
    \/ \E m \in AllMembers : FanoutDone(m)

Spec == Init /\ [][Next]_vars

\* The create protocol together with updates.
NextU ==
    \/ Next
    \/ \E m \in AllMembers : networkPut(m)

SpecU == Init /\ [][NextU]_vars

(***************************************************************************)
(* One operator who issues a request once the previous one is answered,    *)
(* and an environment whose faults stop at some point.                     *)
(***************************************************************************)
Quiet == \A m \in AllMembers : h[m].pc \in {"idle", "done"}

\* From here on every driver call, transaction and peer succeeds.
Heal ==
    /\ ~healthy
    /\ healthy' = TRUE
    /\ UNCHANGED <<readVars, startVars, proj, events, upd, members, net, row, drv, lock, h, authz, created_events,
                   creators, failures>>

\* The operator re-issues create, without target and with an empty config,
\* for a record that is errored.
Retry(m) ==
    /\ Quiet
    /\ \E n \in Names :
        /\ net[n].present
        /\ net[n].status = "errored"
        /\ BeginCreateReq(m, [name |-> n, type |-> net[n].type, config |-> EmptyCfg],
                          "normal")

HandlerStep ==
    \/ \E m \in AllMembers : PendingAll(m)
    \/ \E m \in AllMembers : CommitTxn(m)
    \/ \E m \in AllMembers : SingleInsert(m)
    \/ \E m \in AllMembers : LocalCreate(m)
    \/ \E m \in AllMembers : SingleLocalCreate(m)
    \/ \E m, p \in AllMembers : PeerCreate(m, p)
    \/ \E m, p \in AllMembers : PeerUnreachable(m, p)
    \/ \E m \in AllMembers : FanoutDone(m)

NextL ==
    \/ \E m \in AllMembers : Quiet /\ DefineOnTarget(m)
    \/ \E m \in AllMembers : Quiet /\ BeginCreate(m)
    \/ HandlerStep
    \/ Heal

\* A handler that can take a step takes it; an errored record is retried.
SpecL ==
    /\ Init
    /\ [][NextL]_vars
    /\ WF_vars(HandlerStep)
    /\ SF_vars(\E m \in AllMembers : Retry(m))
(***************************************************************************)
(* Properties of the create protocol.                                      *)
(***************************************************************************)
IsCreated(n) == net[n].present /\ net[n].status = "created"

IsErrored(n) == net[n].present /\ net[n].status = "errored"

AllCreated(n) == \A p \in Locations(n) : row[n][p].st = "created"

\* The single-node create that inserted record n has not finished its
\* local actuation yet.
SingleCreateRunning(n) ==
    \E m \in AllMembers : h[m].pc = "single_local" /\ h[m].name = n

\* A commit for record n is past its transaction and has not returned.
CommitActing(n) ==
    \E m \in AllMembers : h[m].pc \in {"local", "fanout"} /\ h[m].name = n

C1_CreatedInv ==
    \A n \in Names : (IsCreated(n) /\ ~SingleCreateRunning(n)) => AllCreated(n)

C1_MarkerStep ==
    \A n \in Names :
        (net[n].present /\ net[n].status # "created" /\ net'[n].status = "created")
        => \A p \in members : row[n][p].st = "created"

StatusSteps ==
    {<<"pending", "created">>, <<"pending", "errored">>,
     <<"errored", "created">>, <<"errored", "errored">>}

C2_StatusStep ==
    \A n \in Names :
        (net[n].present /\ net'[n].present /\ net'[n].status # net[n].status)
        => <<net[n].status, net'[n].status>> \in StatusSteps

C2_StatusInv ==
    \A n \in Names : net[n].present => net[n].status \in {"pending", "created", "errored"}

\* C2: over create, retry, update and notification steps the global status
\* of a record is one of pending, created, errored and changes only along
\* pending->created, pending->errored, errored->created, errored->errored;
\* a created record stays created and an errored one never becomes pending.
C2_StatusTransitions == [](C2_StatusInv) /\ [][C2_StatusStep]_vars

\* A record that went pending, errored, created: created by a retry.
C2_Witness ==
    \E n \in Names : IsCreated(n) /\ n \notin creators /\ Quiet

GlobalConfigInserted(n) == FillConfig(net[n].type, net[n].config) = net[n].config

\* The commit served by m has a member left on which doNetworksCreate will
\* call the driver: the local member, or a peer not yet notified, whose
\* local status is not created.
DriverCallAhead(m) ==
    \/ h[m].pc = "local" /\ row[h[m].name][m].st # "created"
    \/ h[m].pc = "fanout" /\ \E p \in h[m].todo : row[h[m].name][p].st # "created"

C3_Inv ==
    \A m \in AllMembers :
        DriverCallAhead(m) => (IsErrored(h[m].name) /\ GlobalConfigInserted(h[m].name))

C3_DriverStep ==
    \A n \in Names :
        ((\E p \in AllMembers : drv'[n][p] # drv[n][p] \/ row'[n][p].st # row[n][p].st)
         /\ CommitActing(n))
        => (IsErrored(n) /\ GlobalConfigInserted(n))

\* C3: in a cluster commit, whenever doNetworksCreate is about to call
\* driver Create and Start on a member (locally or through a notification),
\* and whenever a step changes the driver or the local status of a member,
\* the record carries its global config and its global status is errored.
C3_ActuationAfterInsert == [](C3_Inv) /\ [][C3_DriverStep]_vars

C3_Witness ==
    \E n \in Names, m \in AllMembers :
        /\ h[m].pc = "fanout" /\ h[m].name = n /\ h[m].inserted
        /\ drv[n][m] = "started"
        /\ \E p \in Peers(m) : p \notin h[m].todo /\ drv[n][p] = "started"

\* The commit served by m returns because its local actuation or the
\* notification of a peer failed.
CommitFails(m) ==
    /\ h[m].pc \in {"local", "fanout"}
    /\ h'[m].pc = "done"
    /\ h'[m].res \in {"actuation_failed", "fanout_failed"}

C4_OriginalStep ==
    \A m \in AllMembers : CommitFails(m) => IsErrored(h[m].name)'

\* C4 as stated: when the local actuation or the notification of a peer
\* fails in a cluster commit, the request returns an error and the global
\* status after the return is errored.
C4_FailureLeavesErrored == [][C4_OriginalStep]_vars

C4_FailureStep ==
    \A m \in AllMembers :
        /\ (h[m].pc = "fanout" /\ h[m].ferr /\ h'[m].pc = "done")
                => h'[m].res = "fanout_failed"
        /\ CommitFails(m) =>
             /\ net' = net
             /\ \/ IsErrored(h[m].name)
                \/ IsCreated(h[m].name) /\ AllCreated(h[m].name) /\ ~h[m].inserted

\* C4: when the local actuation or the notification of a peer fails in a
\* cluster commit, on a first attempt or on a retry, the request returns an
\* error and leaves the global status as it is: errored, or created when
\* the request is a retry and another commit of the record, running at the
\* same time, has already marked it created on every member; never pending.
C4_FailureKeepsStatus == [][C4_FailureStep]_vars

\* A retry that failed in its fan-out.
C4_Witness ==
    \E n \in Names, m \in AllMembers :
        /\ h[m].pc = "done" /\ h[m].name = n /\ ~h[m].inserted
        /\ h[m].res = "fanout_failed"
        /\ IsErrored(n)

\* The request served by m, which inserted the record or its global
\* config, returns success.
CreatorSucceeds(m) ==
    /\ h[m].pc \in {"fanout", "single_local"}
    /\ h[m].inserted
    /\ h'[m].pc = "done"
    /\ h'[m].res = "ok"

\* The commit served by m goes on to actuation without inserting anything.
RetryProceeds(m) ==
    /\ h[m].pc = "commit"
    /\ h'[m].pc = "local"
    /\ ~h'[m].inserted

\* The request served by m, which loaded the record as created, takes a
\* step of the cluster path.
OnCreatedRecord(m) ==
    /\ h[m].pc \in {"pending_all", "commit"}
    /\ h[m].info.present
    /\ h[m].info.status = "created"
    /\ h'[m] # h[m]

C6_Step ==
    \A m \in AllMembers :
        /\ CreatorSucceeds(m) => h[m].name \notin creators
        /\ RetryProceeds(m) => (h[m].info.present /\ h[m].info.status = "errored")
        /\ OnCreatedRecord(m) => (h'[m].pc = "done" /\ h'[m].res # "ok")

C6_Inv ==
    \A m \in AllMembers :
        h[m].pc \in {"local", "fanout"} =>
            (h[m].inserted \/ IsErrored(h[m].name) \/ IsCreated(h[m].name))

\* C6: of the create requests without target for one name, handled at the
\* same time or one after the other on any members, at most one returns
\* success as the request that inserted the record or its global config; a
\* request that finds the record created is refused, and a request goes on
\* without inserting only as a retry of a record it loaded as errored.
C6_OneCreator == [](C6_Inv) /\ [][C6_Step]_vars

\* One request answered as creator, another refused on the created record.
C6_Witness ==
    \E n \in Names, m1, m2 \in AllMembers :
        /\ m1 # m2
        /\ h[m1].pc = "done" /\ h[m1].name = n /\ h[m1].res = "ok" /\ h[m1].inserted
        /\ h[m2].pc = "done" /\ h[m2].name = n /\ h[m2].res = "already_created"
        /\ n \in creators

NodeSpecificCommit(m) ==
    /\ h[m].pc = "commit"
    /\ NodeSpecificConfig(h[m].type)
    /\ CommitKeyScopeOk(h[m].config)
    /\ h'[m].pc # "commit"

Refused(m) ==
    /\ h'[m].pc = "done"
    /\ h'[m].res # "ok"
    /\ UNCHANGED <<net, row, drv>>

C8_Step ==
    \A m \in AllMembers :
        NodeSpecificCommit(m) =>
            /\ ~net[h[m].name].present => (Refused(m) /\ h'[m].res = "not_pending")
            /\ (\E p \in members : row[h[m].name][p].st = "absent") => Refused(m)

C8_Inv ==
    \A m \in AllMembers :
        (h[m].pc \in {"local", "fanout"} /\ NodeSpecificConfig(net[h[m].name].type))
        => \A p \in members : row[h[m].name][p].st # "absent"

\* C8: a commit for a driver with node-specific config (its config passing
\* the key check) goes on to actuation only if every member has a row from
\* a define-on-target request; with no record it is refused with 'not
\* pending on any node', with a row missing for some member it is refused,
\* and when refused the global config, the status, the rows and the
\* drivers are unchanged.
C8_CommitNeedsDefinitions == [](C8_Inv) /\ [][C8_Step]_vars

C8_Witness ==
    \E m \in AllMembers :
        /\ ServerClustered
        /\ h[m].pc = "done"
        /\ h[m].res = "not_pending"

\* Record n is partially created as the catalog has it now.
PartiallyCreatedNow(n) ==
    /\ net[n].present
    /\ \/ net[n].status = "errored"
       \/ \E k \in KeysOf(net[n].config) : ~IsNodeSpecificNetworkConfig(k)

C9_Step ==
    \A m \in AllMembers :
        (h[m].pc = "commit" /\ h'[m].pc # "commit" /\ PartiallyCreatedNow(h[m].name))
        => /\ KeysOf(h[m].config) # {} => Refused(m)
           /\ KeysOf(h[m].config) = {} =>
                /\ net' = net
                /\ (h[m].info.status = "errored" /\ h[m].info.type = h[m].type)
                      => (h'[m].pc = "local" /\ ~h'[m].inserted)

C10_ErroredAfterFailure == \A n \in Names : IsErrored(n) => n \in failures

\* C10: a record whose global status is errored carries its global config,
\* and either a step of a commit has failed since the config was inserted
\* or a commit, which marked it errored before any actuation, is still
\* running.
C10_ErroredMeaning ==
    \A n \in Names :
        IsErrored(n) => (GlobalConfigInserted(n) /\ (n \in failures \/ CommitActing(n)))

C10_Witness ==
    \E n \in Names : IsErrored(n) /\ n \in failures /\ Quiet

\* The request served by m is a retry: no target, an empty config and the
\* type of the record, which it loaded as errored.
RetryRequest(m) ==
    /\ h[m].pc \in {"pending_all", "commit"}
    /\ h[m].info.present
    /\ h[m].info.status = "errored"
    /\ h[m].type = h[m].info.type
    /\ KeysOf(h[m].config) = {}

C5_AcceptStep ==
    \A m \in AllMembers :
        RetryRequest(m) =>
            /\ (h[m].pc = "pending_all" /\ h'[m].pc # "pending_all") => h'[m].pc = "commit"
            /\ (h[m].pc = "commit" /\ h'[m].pc # "commit") => h'[m].pc = "local"

C5_Live ==
    \A n \in Names : (IsErrored(n) /\ healthy) ~> IsCreated(n)

\* C5: a create request without target and with an empty config for a
\* record left errored passes the checks of the commit and goes on to
\* actuation; and once every driver call, transaction and peer succeeds, an
\* errored record that the operator keeps retrying becomes created.
C5_RetryReachesCreated == [][C5_AcceptStep]_vars /\ C5_Live

\* After the faults have stopped, a retry has actuated every member and is
\* about to write the created marker.
C5_Witness ==
    \E n \in Names, m \in AllMembers :
        /\ healthy
        /\ ServerClustered
        /\ h[m].pc = "fanout" /\ h[m].name = n /\ ~h[m].inserted
        /\ h[m].todo = {} /\ ~h[m].ferr
        /\ IsErrored(n)

(***************************************************************************)
(* Properties of the single-node create path.                              *)
(***************************************************************************)
\* The single-node create of member m returns an error after its insert.
SingleCreateFails(m) ==
    /\ h[m].pc = "single_local"
    /\ h'[m].pc = "done"
    /\ h'[m].res # "ok"

C11_Step ==
    \A m \in AllMembers :
        SingleCreateFails(m) =>
            /\ ~net'[h[m].name].present
            /\ Locations(h[m].name)' = {}
            /\ authz' = authz
            /\ created_events' = created_events

BumpKind(kind) == [events EXCEPT ![kind] = IF @ < EventCap THEN @ + 1 ELSE @]

\* A delete or rename handler that has returned.
DoneUsed(n, res, used) == [Done(n, res, FALSE) EXCEPT !.used = used]

\* Faulty variant: the in-use check is missing.
DeleteRefusesUse_Never(inUse, clusterNotification) == FALSE

\* The quick check of networkDelete.
DeleteRefusesUse(inUse, clusterNotification) == ~clusterNotification /\ inUse

\* n.Delete(clientType) runs unless the local status is pending.
DeleteCallsDriver(n, m) == LocalStatus(n, m) # "pending"

networkDeleteReq(m, n, inUse) ==
    /\ m \in members
    /\ h[m].pc \in {"idle", "done"}
    /\ IF ~net[n].present THEN
           /\ h' = [h EXCEPT ![m] = DoneUsed(n, "not_found", FALSE)]
           /\ UNCHANGED drv
       ELSE IF DeleteRefusesUse(inUse, FALSE) THEN
           /\ h' = [h EXCEPT ![m] = DoneUsed(n, "in_use", inUse)]
           /\ UNCHANGED drv
       ELSE
           \E out \in {"ok"} \cup (IF healthy THEN {} ELSE {"delete_failed"}) :
               IF out = "ok" THEN
                   /\ drv' = IF DeleteCallsDriver(n, m)
                             THEN [drv EXCEPT ![n][m] = "none"] ELSE drv
                   /\ h' = [h EXCEPT ![m] =
                              [Idle EXCEPT !.pc = "delete_fanout", !.name = n,
                                           !.used = inUse,
                                           !.todo = IF ServerClustered THEN Peers(m) ELSE {}]]
               ELSE
                   /\ h' = [h EXCEPT ![m] = DoneUsed(n, out, inUse)]
                   /\ UNCHANGED drv
    /\ UNCHANGED <<readVars, startVars, proj, events, upd, members, net, row, lock, healthy, authz,
                   created_events, creators, failures>>

networkDelete(m) == \E n \in Names, inUse \in BOOLEAN : networkDeleteReq(m, n, inUse)

\* The delete notification served by peer p: no in-use check and no
\* catalog work.
PeerDelete(m, p) ==
    /\ h[m].pc = "delete_fanout"
    /\ p \in h[m].todo
    /\ LET n == h[m].name IN
       \E out \in (IF net[n].present THEN {"ok"} ELSE {"not_found"})
                  \cup (IF healthy THEN {} ELSE {"delete_failed"}) :
           /\ drv' = IF out = "ok" /\ DeleteCallsDriver(n, p)
                     THEN [drv EXCEPT ![n][p] = "none"] ELSE drv
           /\ h' = [h EXCEPT ![m].todo = @ \ {p}, ![m].ferr = @ \/ out # "ok"]
    /\ UNCHANGED <<readVars, startVars, proj, events, upd, members, net, row, lock, healthy, authz,
                   created_events, creators, failures>>

\* Faulty variant: the error of the notifier is ignored.
DeleteFanoutOk_Always(ferr) == TRUE

DeleteFanoutOk(ferr) == ~ferr

DeleteDone(m) ==
    /\ h[m].pc = "delete_fanout"
    /\ h[m].todo = {}
    /\ LET n == h[m].name IN
       \E out \in (IF ~DeleteFanoutOk(h[m].ferr) THEN {"fanout_failed"}
                   ELSE (IF net[n].present THEN {"deleted"} ELSE {"db_error"})
                        \cup (IF healthy THEN {} ELSE {"db_error"})) :
           /\ h' = [h EXCEPT ![m] = DoneUsed(n, out, h[m].used)]
           /\ IF out = "deleted" THEN
                  /\ net' = DeleteNetwork(n)
                  /\ row' = DeleteNetworkRows(n)
                  /\ authz' = authz \ {n}
                  /\ events' = BumpKind("network-deleted")
              ELSE UNCHANGED <<net, row, authz, events>>
    /\ UNCHANGED <<readVars, startVars, proj, upd, members, drv, lock, healthy, created_events,
                   creators, failures>>

\* The create protocol, for one request body, together with deletes.
DeleteSpecRequests == [name : Names, type : {"bridge"}, config : {EmptyCfg}]

NextD ==
    \/ \E m, target \in AllMembers, body \in DeleteSpecRequests :
           target \in members /\ DefineOnTargetReq(m, body, target)
    \/ \E m \in AllMembers, body \in DeleteSpecRequests :
           BeginCreateReq(m, body, "normal")
    \/ \E m \in AllMembers : CommitTxn(m)
    \/ \E m \in AllMembers : SingleInsert(m)
    \/ \E m \in AllMembers : LocalCreate(m)
    \/ \E m \in AllMembers : SingleLocalCreate(m)
    \/ \E m, p \in AllMembers : PeerCreate(m, p)
    \/ \E m, p \in AllMembers : PeerUnreachable(m, p)
    \/ \E m \in AllMembers : FanoutDone(m)
    \/ \E m \in AllMembers : networkDelete(m)
    \/ \E m, p \in AllMembers : PeerDelete(m, p)
    \/ \E m \in AllMembers : DeleteDone(m)

SpecD == Init /\ [][NextD]_vars

(***************************************************************************)
(* Properties of delete.                                                   *)
(***************************************************************************)
\* Member m serves a delete request whose in-use check found the network
\* in use.
DeleteInUse(m) == h[m].used

C12_Inv ==
    \A m \in AllMembers :
        DeleteInUse(m) => (h[m].pc = "done" /\ h[m].res = "in_use" /\ h[m].todo = {})

C12_Step ==
    \A m \in AllMembers :
        (DeleteInUse(m)' /\ h'[m] # h[m]) =>
            /\ drv' = drv
            /\ net' = net
            /\ row' = row
            /\ authz' = authz
            /\ events' = events

\* C12: a delete request that is not a cluster notification, for a network
\* that is in use, is answered with `in use`; it calls no driver Delete on
\* any member, sends no delete notification, removes no catalog record and
\* emits no network-deleted event.
C12_InUseRefused == [](C12_Inv) /\ [][C12_Step]_vars

C12_Witness ==
    \E m \in AllMembers, n \in Names :
        /\ ServerClustered
        /\ h[m].pc = "done"
        /\ h[m].res = "in_use"
        /\ h[m].name = n
        /\ IsCreated(n)
        /\ n \in authz
        /\ \A p \in members : drv[n][p] = "started"
        /\ events["network-deleted"] = 0

\* The delete request served by member m returns with this step.
DeleteReturns(m) ==
    /\ h[m].pc = "delete_fanout"
    /\ h'[m].pc = "done"

\* The delete request served by member m takes a step.
DeleteSteps(m) ==
    /\ h'[m] # h[m]
    /\ \/ h[m].pc = "delete_fanout"
       \/ h'[m].pc = "delete_fanout"
       \/ h'[m].res \in {"delete_failed", "in_use", "not_found"}

C13_Step ==
    \A m \in AllMembers :
        /\ (DeleteReturns(m) /\ h'[m].res = "deleted") =>
               /\ h[m].todo = {}
               /\ ~h[m].ferr
               /\ ~net'[h[m].name].present
               /\ events' # events \/ events["network-deleted"] = EventCap
        /\ (DeleteSteps(m) /\ h'[m].res # "deleted") =>
               /\ net' = net
               /\ row' = row
               /\ authz' = authz
               /\ events' = events
        /\ (h'[m].pc = "delete_fanout" /\ h[m].pc # "delete_fanout") =>
               /\ DeleteCallsDriver(h'[m].name, m) => drv'[h'[m].name][m] = "none"
               /\ h'[m].todo = (IF ServerClustered THEN Peers(m) ELSE {})
               /\ ~h'[m].ferr

\* C13: a delete removes the catalog record only after the local driver
\* Delete (run when the local status is not pending) and the delete
\* notification to every peer have succeeded; when the local Delete or the
\* delete of a peer fails the request returns an error, the record stays
\* in the catalog with its status unchanged and no network-deleted event is
\* emitted.
C13_DeleteOrder == [][C13_Step]_vars

C13_Witness ==
    \E m \in AllMembers, n \in Names :
        /\ ServerClustered
        /\ h[m].pc = "done"
        /\ h[m].res = "deleted"
        /\ h[m].name = n
        /\ ~net[n].present
        /\ \A p \in members : drv[n][p] = "none"
        /\ n \notin authz
        /\ events["network-deleted"] = 1

(***************************************************************************)
(* networkPost (rename) served by member m.                                *)
(***************************************************************************)
RenameNames == Catalog \cup {"", "a:b"}

\* Faulty variant: the test for a clustered server is missing.
RenameRefusesClustered_Never(clustered) == FALSE

RenameRefusesClustered(clustered) == clustered

\* Faulty variant: a record in any state may be renamed.
RenameStatusOk_Any(status) == TRUE

RenameStatusOk(status) == status = "created"

\* The response of networkPost for the record as it is now.
RenameResult(n, newName, inUse) ==
    IF RenameRefusesClustered(ServerClustered) THEN "rename_clustered"
    ELSE IF ~net[n].present THEN "rename_not_found"
    ELSE IF ~RenameStatusOk(net[n].status) THEN "rename_not_created"
    ELSE IF newName = "" THEN "rename_no_name"
    ELSE IF ~ValidateName(newName) THEN "rename_bad_name"
    ELSE IF inUse THEN "rename_in_use"
    ELSE IF net[newName].present THEN "rename_conflict"
    ELSE "renamed"

\* n.Rename(newName): the record, its rows and the driver resource move to
\* the new name.
Rename(f, n, newName, empty) == [f EXCEPT ![newName] = f[n], ![n] = empty]

networkPostReq(m, n, newName, inUse) ==
    /\ m \in members
    /\ h[m].pc \in {"idle", "done"}
    /\ \E res \in {RenameResult(n, newName, inUse)}
                  \cup (IF RenameResult(n, newName, inUse) = "renamed" /\ ~healthy
                        THEN {"rename_failed"} ELSE {}) :
        /\ h' = [h EXCEPT ![m] =
                   [Idle EXCEPT !.pc = "done", !.name = n, !.to = newName,
                                !.res = res, !.used = inUse]]
        /\ IF res = "renamed" THEN
               /\ net' = Rename(net, n, newName, NoNet)
               /\ row' = Rename(row, n, newName, [p \in AllMembers |-> NoRow])
               /\ drv' = Rename(drv, n, newName, [p \in AllMembers |-> "none"])
               /\ authz' = (authz \ {n}) \cup {newName}
               /\ events' = BumpKind("network-renamed")
           ELSE UNCHANGED <<net, row, drv, authz, events>>
    /\ UNCHANGED <<readVars, startVars, proj, upd, members, lock, healthy, created_events, creators,
                   failures>>

networkPost(m) ==
    \E n \in Catalog, newName \in RenameNames, inUse \in BOOLEAN :
        networkPostReq(m, n, newName, inUse)

\* The create protocol, for a valid and a reserved name, together with
\* renames.
RenameSpecRequests == [name : Names \cup {"none"}, type : {"bridge"}, config : {EmptyCfg}]

NextR ==
    \/ \E m, target \in AllMembers, body \in RenameSpecRequests :
           target \in members /\ DefineOnTargetReq(m, body, target)
    \/ \E m \in AllMembers, body \in RenameSpecRequests :
           BeginCreateReq(m, body, "normal")
    \/ \E m \in AllMembers : CommitTxn(m)
    \/ \E m \in AllMembers : SingleInsert(m)
    \/ \E m \in AllMembers : LocalCreate(m)
    \/ \E m \in AllMembers : SingleLocalCreate(m)
    \/ \E m, p \in AllMembers : PeerCreate(m, p)
    \/ \E m, p \in AllMembers : PeerUnreachable(m, p)
    \/ \E m \in AllMembers : FanoutDone(m)
    \/ \E m \in AllMembers : networkPost(m)

SpecR == Init /\ [][NextR]_vars

(***************************************************************************)
(* Properties of rename.                                                   *)
(***************************************************************************)
RenameResponses ==
    {"rename_clustered", "rename_not_found", "rename_not_created", "rename_no_name",
     "rename_bad_name", "rename_in_use", "rename_conflict", "rename_failed", "renamed"}

\* Member m answers a rename request with this step.
RenameSteps(m) == h'[m] # h[m] /\ h'[m].res \in RenameResponses

C14_Step ==
    \A m \in AllMembers :
        (RenameSteps(m) /\ ServerClustered) =>
            /\ h'[m].res = "rename_clustered"
            /\ net' = net
            /\ row' = row
            /\ drv' = drv
            /\ authz' = authz
            /\ events' = events
            /\ created_events' = created_events

\* C14: on a clustered server every rename request is refused with a bad
\* request, whatever the state of the network and the new name, and the
\* catalog, the driver state, the authorizer and the event stream are
\* left unchanged.
C14_RenameClustered == [][C14_Step]_vars

C14_Witness ==
    \E m \in AllMembers :
        /\ ServerClustered
        /\ h[m].pc = "done"
        /\ h[m].res = "rename_clustered"
        /\ h[m].name \in Names
        /\ h[m].to = "n2"
        /\ ~h[m].used
        /\ IsCreated(h[m].name)
        /\ ~net["n2"].present

C15_Step ==
    \A m \in AllMembers :
        (RenameSteps(m) /\ ~ServerClustered) =>
            LET old == h'[m].name
                new == h'[m].to
            IN
            IF h'[m].res = "renamed" THEN
                /\ IsCreated(old)
                /\ ~h'[m].used
                /\ new # ""
                /\ ValidateName(new)
                /\ ~net[new].present
                /\ ~net'[old].present
                /\ net'[new] = net[old]
                /\ row'[new] = row[old]
                /\ \A n \in Catalog \ {old, new} : net'[n] = net[n]
            ELSE
                /\ net' = net
                /\ row' = row
                /\ drv' = drv

\* C15: on a server that is not clustered a rename succeeds only if the
\* status of the record is created, the network is not in use, and the new
\* name is not empty, passes the name validation and is not the name of an
\* existing record; after it the old name resolves to no record and the
\* new name resolves to the record; a refused rename leaves the record
\* unchanged.
C15_RenameRules == [][C15_Step]_vars

C15_Witness ==
    \E m \in AllMembers :
        /\ ~ServerClustered
        /\ h[m].pc = "done"
        /\ h[m].res = "renamed"
        /\ h[m].name = "n1"
        /\ h[m].to = "n2"
        /\ ~net["n1"].present
        /\ IsCreated("n2")
        /\ row["n2"][m].st = "created"
        /\ "n2" \in authz
        /\ events["network-renamed"] = 1

\* C16 as stated: in every reachable state no record named `none` exists in
\* the catalog.
C16_NoneNeverExists == ~net["none"].present

(***************************************************************************)
(* Create requests in a project other than the default one, whose          *)
(* limits.networks is NetworksLimit.                                       *)
(***************************************************************************)
LimitSpecRequests == [name : {"n1", "n2"}, type : {"", "bridge"}, config : {EmptyCfg}]

InitQ == InitIn("p1")

NextQ ==
    \/ \E m, target \in AllMembers, body \in LimitSpecRequests :
           target \in members /\ DefineOnTargetReq(m, body, target)
    \/ \E m \in AllMembers, body \in LimitSpecRequests :
           BeginCreateReq(m, body, "normal")
    \/ \E m \in AllMembers : PendingAll(m)
    \/ \E m \in AllMembers : CommitTxn(m)
    \/ \E m \in AllMembers : SingleInsert(m)
    \/ \E m \in AllMembers : LocalCreate(m)
    \/ \E m \in AllMembers : SingleLocalCreate(m)
    \/ \E m, p \in AllMembers : PeerCreate(m, p)
    \/ \E m, p \in AllMembers : PeerUnreachable(m, p)
    \/ \E m \in AllMembers : FanoutDone(m)

SpecQ == InitQ /\ [][NextQ]_vars

\* C17 as stated: in a project other than the default one the number of
\* network records never exceeds its limits.networks.
C17_WithinLimit ==
    proj # ProjectDefaultName => Cardinality(GetNetworks) <= NetworksLimit

(***************************************************************************)
(* networkPut / networkPatch with its response: upd holds the last update  *)
(* request, its response and the config handed to the driver.              *)
(***************************************************************************)
PutConfigs == [Keys -> {Unset, "1", "2"}]

\* The response of networkPut before doNetworkUpdate; "" when the request
\* reaches doNetworkUpdate.
PutRefusal(n, m, c, targeted) ==
    IF ~PutStatusOk(targeted, net[n].status) THEN "bad_request"
    ELSE IF ServerClustered /\ ~PutKeyScopeOk(NetConfig(n, m), c, targeted) THEN "bad_scope"
    ELSE ""

\* The responses networkPut can give once the entity tag has passed.
PutOutcomes(n, m, c, targeted) ==
    IF PutRefusal(n, m, c, targeted) # "" THEN {PutRefusal(n, m, c, targeted)}
    ELSE {"ok"} \cup (IF healthy THEN {} ELSE {"invalid", "update_failed"})

\* doNetworkUpdate was reached.
PutCalled(res) == res \in {"ok", "invalid", "update_failed"}

\* What a request answered with res does to the catalog and the events.
PutEffect(m, n, c, targeted, method, res) ==
    LET merged == UpdateMerge(NetConfig(n, m), c, targeted, method) IN
    /\ IF res = "ok" THEN
           /\ net' = [net EXCEPT ![n].config = StripNodeSpecificNetworkConfig(merged)]
           /\ row' = [row EXCEPT ![n][m].cfg = NodeSpecificPart(merged)]
       ELSE UNCHANGED <<net, row>>
    /\ events' = IF PutCalled(res) THEN BumpKind("network-updated") ELSE events

\* networkPut without its entity-tag check and without the description of
\* the request.
networkPutBody(m, n, c, targeted, method) ==
    /\ m \in members
    /\ net[n].present
    /\ row[n][m].st # "absent"
    /\ \E res \in PutOutcomes(n, m, c, targeted) :
           /\ upd' = [seq |-> 1 - upd.seq, member |-> m, name |-> n, config |-> c,
                      targeted |-> targeted, res |-> res, called |-> PutCalled(res),
                      handed |-> IF PutCalled(res)
                                 THEN UpdateMerge(NetConfig(n, m), c, targeted, method)
                                 ELSE EmptyCfg]
           /\ PutEffect(m, n, c, targeted, method, res)
    /\ UNCHANGED <<startVars, proj, members, drv, lock, h, healthy, authz,
                   created_events, creators, failures>>

\* A request without If-Match whose description is the one of the record.
networkPutReq(m, n, c, targeted, method) ==
    /\ networkPutBody(m, n, c, targeted, method)
    /\ UNCHANGED readVars

\* The catalog as the create protocol leaves it for a bridge defined on
\* every member: pending after the definitions, errored after a commit
\* that failed, created after a commit that succeeded.
PutSpecStatuses == {"pending", "errored", "created"}

InitP ==
    /\ members \in {{"a"}, AllMembers}
    /\ \E status \in PutSpecStatuses, parents \in [AllMembers -> {Unset, "1"}] :
        /\ net = [n \in Catalog |->
                    IF n \in Names
                    THEN [present |-> TRUE, type |-> "bridge", status |-> status,
                          config |-> IF status = "pending" THEN EmptyCfg
                                     ELSE FillConfig("bridge", EmptyCfg)]
                    ELSE NoNet]
        /\ row = [n \in Catalog |-> [m \in AllMembers |->
                    IF n \in Names /\ m \in members
                    THEN [st |-> IF status = "created" THEN "created" ELSE "pending",
                          cfg |-> Cfg("parent", parents[m])]
                    ELSE NoRow]]
        /\ drv = [n \in Catalog |-> [m \in AllMembers |->
                    IF n \in Names /\ m \in members /\ status = "created"
                    THEN "started" ELSE "none"]]
    /\ lock = [m \in AllMembers |-> "free"]
    /\ h = [m \in AllMembers |-> Idle]
    /\ healthy = FALSE
    /\ authz = Names
    /\ created_events = [n \in Catalog |-> IF n \in Names THEN 1 ELSE 0]
    /\ creators = {}
    /\ failures = {}
    /\ proj = ProjectDefaultName
    /\ events = [k \in EventKinds |-> 0]
    /\ upd = NoUpdate
    /\ InitRest

NextP ==
    \E m \in AllMembers, n \in Names, c \in PutConfigs, targeted \in BOOLEAN,
       method \in Methods : networkPutReq(m, n, c, targeted, method)

SpecP == InitP /\ [][NextP]_vars

(***************************************************************************)
(* Properties of update.                                                   *)
(***************************************************************************)
\* An update request is answered with this step.
UpdateSteps == upd'.seq # upd.seq

\* The config of the record as the serving member loaded it.
UpdateCurrent == NetConfig(upd'.name, upd'.member)

C18_Step ==
    (UpdateSteps /\ ~upd'.targeted /\ net[upd'.name].status # "created") =>
        /\ upd'.res = "bad_request"
        /\ ~upd'.called
        /\ net' = net
        /\ row' = row
        /\ drv' = drv
        /\ events' = events

\* C18: a PUT or PATCH without target on a record whose global status is
\* not created is refused with a bad request before any driver Validate or
\* Update, so an update without target never modifies the config of a
\* record that is pending or errored.
C18_UpdateNeedsCreated == [][C18_Step]_vars

C18_Witness ==
    /\ upd.seq = 1
    /\ ~upd.targeted
    /\ upd.res = "bad_request"
    /\ upd.config = Cfg("mtu", "2")
    /\ IsErrored(upd.name)
    /\ net[upd.name].config = FillConfig("bridge", EmptyCfg)

C19_Step ==
    (UpdateSteps /\ ServerClustered /\ ~upd'.targeted) =>
        /\ upd'.called =>
               NodeSpecificPart(upd'.handed) = NodeSpecificPart(UpdateCurrent)
        /\ (\E k \in KeysOf(upd'.config) :
                IsNodeSpecificNetworkConfig(k) /\ upd'.config[k] # UpdateCurrent[k])
               => (~upd'.called /\ upd'.res \in {"bad_request", "bad_scope"})
        /\ row' = row

\* C19: on a clustered server an accepted PUT or PATCH without target never
\* changes a node-specific key: the config handed to the driver's Validate
\* and Update has every node-specific key of the current config with its
\* current value, whether the request omitted or repeated the key, and a
\* request that gives a node-specific key another value is refused.
C19_GlobalUpdateKeepsNodeKeys == [][C19_Step]_vars

C19_Witness ==
    /\ ServerClustered
    /\ upd.seq = 1
    /\ ~upd.targeted
    /\ upd.res = "ok"
    /\ upd.config = Cfg("mtu", "2")
    /\ upd.handed = [Cfg("mtu", "2") EXCEPT !["parent"] = "1"]
    /\ NetConfig(upd.name, upd.member) = upd.handed

C20_Step ==
    (UpdateSteps /\ ServerClustered /\ upd'.targeted /\ upd'.called) =>
        StripNodeSpecificNetworkConfig(upd'.handed)
            = StripNodeSpecificNetworkConfig(UpdateCurrent)

\* C20 as stated: on a clustered server the config an accepted PUT or PATCH
\* with a target hands to the driver's Validate and Update has exactly the
\* global key/value pairs of the current config.
C20_TargetedKeepsGlobal == [][C20_Step]_vars

(***************************************************************************)
(* Frame properties of the create protocol.                                *)
(***************************************************************************)
\* A request is answered in one step and the step changes rows: an accepted
\* definition on a target.
DefineAccepted ==
    /\ row' # row
    /\ \A m \in AllMembers :
           h'[m] # h[m] => (h[m].pc \in {"idle", "done"} /\ h'[m].pc = "done")

\* Member m refuses a create request with its first step.
CreateRefused(m) ==
    /\ h'[m] # h[m]
    /\ h[m].pc \in {"idle", "done"}
    /\ h'[m].pc = "done"
    /\ h'[m].res \in {"bad_request", "conflict", "db_error"}

C26_Step ==
    /\ DefineAccepted =>
           \E n \in Names, t \in members :
               /\ \E m \in members : h'[m].pc = "done" /\ h'[m].res = "ok"
               /\ row[n][t].st = "absent"
               /\ row'[n][t].st = "pending"
               /\ \A k \in KeysOf(row'[n][t].cfg) : k \in NodeKeys
               /\ row' = [row EXCEPT ![n][t] = row'[n][t]]
               /\ net'[n].present
               /\ net'[n].type = "bridge"
               /\ net'[n].status = "pending"
               /\ net'[n].config = (IF net[n].present THEN net[n].config ELSE EmptyCfg)
               /\ drv' = drv
    /\ \A m \in AllMembers :
           CreateRefused(m) => (net' = net /\ row' = row /\ drv' = drv)

\* C26: an accepted definition on target m only inserts a pending row with
\* the node-specific config of the request for member m: no driver Create
\* or Start on any member, no global config, global status pending, the
\* rows of the other members unchanged; a definition for a type without
\* node-specific config or with a key that is not node-specific is refused
\* without any change of the catalog.
C26_DefineFrame == [][C26_Step]_vars

C26_Witness ==
    \E m \in AllMembers, n \in Names :
        /\ ServerClustered
        /\ h[m].pc = "done"
        /\ h[m].res = "ok"
        /\ ~h[m].inserted
        /\ net[n].present
        /\ net[n].status = "pending"
        /\ net[n].config = EmptyCfg
        /\ row[n]["a"] = [st |-> "pending", cfg |-> EmptyCfg]
        /\ row[n]["b"] = [st |-> "pending", cfg |-> Cfg("parent", "1")]
        /\ \A p \in AllMembers : drv[n][p] = "none"

\* Peer p serves the create or delete notification of the request that
\* member m is handling.
PeerServes(m, p) ==
    /\ h[m].pc \in {"fanout", "delete_fanout"}
    /\ h'[m].pc = h[m].pc
    /\ p \in h[m].todo
    /\ p \notin h'[m].todo

C27_Step ==
    \A m, p \in AllMembers :
        PeerServes(m, p) =>
            /\ net' = net
            /\ authz' = authz
            /\ events' = events
            /\ created_events' = created_events
            /\ h'[p] = h[p]
            /\ \A n \in Catalog, q \in AllMembers \ {p} :
                   row'[n][q] = row[n][q] /\ drv'[n][q] = drv[n][q]
            /\ \A n \in Catalog :
                   /\ row'[n][p].cfg = row[n][p].cfg
                   /\ n # h[m].name => (row'[n][p] = row[n][p] /\ drv'[n][p] = drv[n][p])
            /\ h[m].pc = "delete_fanout" => row' = row

\* C27: a member that handles a peer notification (create or delete) only
\* actuates its own driver and, for create, marks its own local status: it
\* writes no global status and no global config, inserts and removes no
\* catalog record, fans out to no peer and emits no lifecycle event.
C27_NotificationFrame == [][C27_Step]_vars

C27_Witness ==
    \E m \in AllMembers, n \in Names :
        /\ h[m].pc = "fanout"
        /\ h[m].name = n
        /\ h[m].todo = {}
        /\ ~h[m].ferr
        /\ Peers(m) # {}
        /\ \A p \in members : row[n][p].st = "created" /\ drv[n][p] = "started"
        /\ IsErrored(n)
        /\ events["network-deleted"] = 1

\* Member m is in the fan-out of a commit and peer p is one of its peers.
InFanout(m, p) == h[m].pc = "fanout" /\ p \in Peers(m)

\* C28 as stated: in every commit that reaches the fan-out, first attempt
\* or retry, the payload for peer p has every node-specific key that p
\* defined, with the value of p.
C28_PayloadHasFragment ==
    \A m, p \in AllMembers :
        InFanout(m, p) => NodeSpecificPart(PeerPayload(m, p)) = row[h[m].name][p].cfg

\* C28: in a commit whose transaction inserted the global config (first
\* attempt) the payload for peer p is the global config, stripped of
\* node-specific keys, merged with the per-node fragment of p; in a retry
\* of a partially created record the payload is the stripped global config
\* alone.
C28_PayloadByAttempt ==
    \A m, p \in AllMembers :
        InFanout(m, p) =>
            /\ StripNodeSpecificNetworkConfig(PeerPayload(m, p)) = net[h[m].name].config
            /\ NodeSpecificPart(PeerPayload(m, p)) =
                   (IF h[m].inserted THEN row[h[m].name][p].cfg ELSE EmptyCfg)

C28_Witness ==
    \E m, p \in AllMembers :
        /\ InFanout(m, p)
        /\ ~h[m].inserted
        /\ row[h[m].name][p].cfg = Cfg("parent", "1")
        /\ PeerPayload(m, p) = FillConfig("bridge", EmptyCfg)

C29_Step ==
    \A n \in Names, p \in AllMembers :
        (net[n].present /\ LocalStatus(n, p) = "created") =>
            (drv'[n][p] = drv[n][p] /\ row'[n][p] = row[n][p])

\* C29: doNetworksCreate calls neither driver Create nor Start on a member
\* whose local status is created: a commit that is run again, or a create
\* notification delivered again, leaves the driver state and the local
\* status of that member unchanged.
C29_ActuationIdempotent == [][C29_Step]_vars

C29_Witness ==
    \E n \in Names :
        /\ h["a"].pc = "done"
        /\ h["a"].name = n
        /\ h["a"].res = "fanout_failed"
        /\ h["a"].inserted
        /\ h["b"].pc = "fanout"
        /\ h["b"].name = n
        /\ ~h["b"].inserted
        /\ h["b"].todo = {}
        /\ ~h["b"].ferr
        /\ row[n]["a"].st = "created"
        /\ drv[n]["a"] = "started"

\* Member p runs doNetworksCreate itself, for a client of type joiner.
JoinerActuates(p) == h[p].pc \in {"local", "single_local"} /\ h[p].ctype = "joiner"

C30_Inv ==
    \A n \in Names, p \in AllMembers :
        IF net[n].present /\ LocalStatus(n, p) = "created"
        THEN drv[n][p] \in {"created", "started"}
        ELSE drv[n][p] = "none"

C30_Step ==
    \A n \in Names, p \in AllMembers :
        (LocalStatus(n, p) # "created" /\ LocalStatus(n, p)' = "created") =>
            drv'[n][p] = (IF JoinerActuates(p) THEN "created" ELSE "started")

\* C30: local actuation is all or nothing on a member: when doNetworksCreate
\* returns an error after driver Create succeeded, driver Delete has been
\* called and the local status is not created; when it returns success on
\* a member that was not created, driver Create and (unless the client is
\* a joiner, for which Start is not called) driver Start have succeeded and
\* the local status is created.
C30_ActuationAllOrNothing == [](C30_Inv) /\ [][C30_Step]_vars

C30_Witness ==
    \E n \in Names, m \in AllMembers :
        /\ h[m].pc = "done"
        /\ h[m].res = "ok"
        /\ h[m].name = n
        /\ ~h[m].inserted
        /\ IsCreated(n)
        /\ LocalStatus(n, m) = "created"
        /\ drv[n][m] = "created"

(***************************************************************************)
(* networkGet and doNetworkGet, and networkPut with an If-Match header.    *)
(* got holds the last response of a GET request.                           *)
(***************************************************************************)
Descriptions == {"", "d"}
HostInterfaces == {"n1", "eth0", "veth1"}
GetNames == Names \cup {"eth0", "veth1"}

\* strings.HasPrefix(name, "veth") on the names of the model.
HasVethPrefix(name) == name \in {"veth1"}

\* network.LoadByName finds a record.
IsManaged(n) == n \in Catalog /\ net[n].present

\* The type found by probing the host for an interface without a record.
HostType(name) == IF name = "eth0" THEN "physical" ELSE "unknown"

NotFound == [found |-> FALSE]

\* Faulty variant: the config is shown to every caller.
ShownConfig_Always(c, editor) == c

\* The config doNetworkGet puts in the response: that of the record for a
\* caller with edit permission, else empty.
ShownConfig(c, editor) == IF editor THEN c ELSE EmptyCfg

\* The response of doNetworkGet for the record n whose config, as member m
\* loads it, is c; used_by is left out.
ManagedResponse(n, m, c, allNodes, editor) ==
    [found |-> TRUE, name |-> n, managed |-> TRUE, type |-> net[n].type,
     description |-> description[n],
     config |-> IF allNodes
                THEN StripNodeSpecificNetworkConfig(ShownConfig(c, editor))
                ELSE ShownConfig(c, editor),
     status |-> IF allNodes THEN net[n].status ELSE LocalStatus(n, m),
     locations |-> Locations(n)]

\* doNetworkGet served by member m, with the host interfaces ifaces; the
\* project policy allows every network.
doNetworkGet(n, m, allNodes, editor, ifaces) ==
    IF HasVethPrefix(n) THEN NotFound
    ELSE IF proj # ProjectDefaultName /\ ~IsManaged(n) THEN NotFound
    ELSE IF n \notin ifaces /\ ~IsManaged(n) THEN NotFound
    ELSE IF IsManaged(n) THEN
        ManagedResponse(n, m, NetConfig(n, m), allNodes, editor)
    ELSE
        [found |-> TRUE, name |-> n, managed |-> FALSE, type |-> HostType(n),
         description |-> "", config |-> EmptyCfg, status |-> "",
         locations |-> {}]

\* The entity tag of a response, and a request without If-Match.
ETag(r) == <<r.name, r.managed, r.type, r.description, r.config>>
NoETag == <<>>

\* networkGet served by member m (the target when the request has one).
networkGet(m, n, targeted, editor, ifaces) ==
    /\ m \in members
    /\ LET allNodes == ServerClustered /\ ~targeted
           r == doNetworkGet(n, m, allNodes, editor, ifaces)
       IN
       got' = [kind |-> "get", name |-> n, targeted |-> targeted,
               member |-> IF targeted THEN m ELSE "", editor |-> editor,
               resp |-> r]
    /\ UNCHANGED <<description, startVars, proj, events, upd, members, net, row,
                   drv, lock, h, healthy, authz, created_events, creators,
                   failures>>

\* Faulty variant: the entity tag of networkPut is made of the whole config.
PutETagConfig_NoStrip(c, targeted) == c

\* The config in the entity tag of networkPut.
PutETagConfig(c, targeted) ==
    IF ~targeted /\ ServerClustered THEN StripNodeSpecificNetworkConfig(c) ELSE c

PutETag(n, m, targeted) ==
    <<n, TRUE, net[n].type, description[n],
      PutETagConfig(NetConfig(n, m), targeted)>>

\* localUtil.EtagCheck: a request without If-Match passes.
EtagCheck(ifMatch, etag) == ifMatch = NoETag \/ ifMatch = etag

\* networkPut with the entity tag ifMatch and the description d; upd holds
\* the response, whether the request was targeted and at which member, and
\* whether it carried an entity tag.
networkPut_IfMatch(m, n, d, c, targeted, method, ifMatch) ==
    /\ m \in members
    /\ net[n].present
    /\ row[n][m].st # "absent"
    /\ \E res \in (IF /\ PutStatusOk(targeted, net[n].status)
                      /\ ~EtagCheck(ifMatch, PutETag(n, m, targeted))
                   THEN {"precondition_failed"}
                   ELSE PutOutcomes(n, m, c, targeted)) :
           /\ upd' = [seq |-> 1 - upd.seq, name |-> n, targeted |-> targeted,
                      member |-> IF targeted THEN m ELSE "", res |-> res,
                      held |-> ifMatch # NoETag]
           /\ PutEffect(m, n, c, targeted, method, res)
           /\ description' = IF res = "ok"
                             THEN [description EXCEPT ![n] = d] ELSE description
    /\ UNCHANGED <<got, startVars, proj, members, drv, lock, h, healthy, authz,
                   created_events, creators, failures>>

\* The entity tag a client holds for network n: the one of its last GET.
HeldETags(n) ==
    {NoETag} \cup (IF got # NoGet /\ got.name = n /\ got.resp.found
                   THEN {ETag(got.resp)} ELSE {})

ETagConfigs == {Cfg("mtu", "1"), Cfg("parent", "1")}
ETagSpecStatuses == {"pending", "created"}

InitE == InitP /\ net["n1"].status \in ETagSpecStatuses

NextE ==
    \/ \E m \in AllMembers, n \in GetNames, targeted, editor \in BOOLEAN :
           networkGet(m, n, targeted, editor, HostInterfaces)
    \/ \E m \in AllMembers, n \in Names, d \in Descriptions, c \in ETagConfigs,
          targeted \in BOOLEAN, method \in Methods :
           \E ifMatch \in HeldETags(n) :
               networkPut_IfMatch(m, n, d, c, targeted, method, ifMatch)

SpecE == InitE /\ [][NextE]_vars

(***************************************************************************)
(* Properties of the entity tag and of what a GET shows.                   *)
(***************************************************************************)
\* The config of the canonical view of a request: without the node-specific
\* keys when the server is clustered and the request has no target.
CanonicalConfig(n, m, targeted) ==
    IF ServerClustered /\ ~targeted
    THEN StripNodeSpecificNetworkConfig(NetConfig(n, m)) ELSE NetConfig(n, m)

\* Name, managed flag, type, description and canonical config of record n.
RecordFields(n, m, targeted) ==
    <<n, TRUE, net[n].type, description[n], CanonicalConfig(n, m, targeted)>>

\* The member serving the request of a mode.
ServingMember(targeted, member) ==
    IF targeted THEN member ELSE CHOOSE m \in members : TRUE

\* This step answers a GET of a record for a caller with edit permission.
EditorGetSteps ==
    /\ got' # got
    /\ got'.kind = "get"
    /\ got'.editor
    /\ got'.resp.found
    /\ got'.resp.managed

\* This step answers an update that carries the entity tag of the last GET,
\* made with edit permission in the same mode, and reaches the check.
IfMatchSteps ==
    /\ upd'.seq # upd.seq
    /\ upd'.held
    /\ got.kind = "get"
    /\ got.editor
    /\ got.name = upd'.name
    /\ got.targeted = upd'.targeted
    /\ got.member = upd'.member
    /\ PutStatusOk(upd'.targeted, net[upd'.name].status)

C21_Step ==
    /\ EditorGetSteps =>
           ETag(got'.resp) =
               RecordFields(got'.name, ServingMember(got'.targeted, got'.member),
                            got'.targeted)
    /\ IfMatchSteps =>
           LET n == upd'.name
               m == ServingMember(upd'.targeted, upd'.member)
           IN
           /\ (upd'.res # "precondition_failed") <=>
                  (RecordFields(n, m, upd'.targeted) = ETag(got.resp))
           /\ upd'.res = "precondition_failed" =>
                  /\ net' = net
                  /\ row' = row
                  /\ description' = description

\* C21: the entity tag of a GET made with edit permission is the name,
\* managed flag, type, description and canonical config of the record; an
\* update carrying it in the same mode passes the entity-tag check exactly
\* when these fields are what they were at that GET, and otherwise it is
\* answered precondition-failed and the record is unchanged.
C21_ETagCheck == [][C21_Step]_vars

C21_Witness ==
    /\ ServerClustered
    /\ got.kind = "get"
    /\ got.editor
    /\ got.name = "n1"
    /\ ~got.targeted
    /\ upd # NoUpdate
    /\ upd.held
    /\ ~upd.targeted
    /\ upd.res = "ok"
    /\ row["n1"]["b"].cfg["parent"] = "1"
    /\ description["n1"] = "d"
    /\ got.resp.description = ""

C21_WitnessStale ==
    /\ got.kind = "get"
    /\ got.editor
    /\ got.name = "n1"
    /\ upd # NoUpdate
    /\ upd.held
    /\ upd.targeted = got.targeted
    /\ upd.member = got.member
    /\ upd.res = "precondition_failed"

(***************************************************************************)
(* networksGet: the list of the networks of the default project, without   *)
(* filter; got holds the URL list (as names) and the record list.          *)
(***************************************************************************)
RECURSIVE SeqOf(_)
\* The elements of a set in the order a query or the host returns them.
SeqOf(S) ==
    IF S = {} THEN <<>>
    ELSE LET x == CHOOSE y \in S : TRUE IN <<x>> \o SeqOf(S \ {x})

\* Faulty variant: no name is taken to be in the list yet.
Contains_Never(names, x) == FALSE

\* slices.Contains.
Contains(names, x) == \E k \in 1..Len(names) : names[k] = x

RECURSIVE AppendInterfaces(_, _)
\* The managed names followed by the host interfaces that are not veth
\* pairs and are not in the list yet.
AppendInterfaces(names, ifs) ==
    IF ifs = <<>> THEN names
    ELSE AppendInterfaces(
             IF HasVethPrefix(Head(ifs)) \/ Contains(names, Head(ifs))
             THEN names ELSE Append(names, Head(ifs)),
             Tail(ifs))

\* The names networksGet walks: those of the records of the project, then
\* in the default project the host interfaces.
networkNames(ifaces) ==
    IF proj = ProjectDefaultName
    THEN AppendInterfaces(SeqOf(GetNetworks), SeqOf(ifaces))
    ELSE SeqOf(GetNetworks)

\* The callers of the model may view every network or only n1.
ViewSets == {Catalog \cup HostInterfaces, {"n1"}}

\* networksGet served by member m for a caller who may view the networks
\* of visible.
networksGet(m, recursion, editor, visible, ifaces) ==
    /\ m \in members
    /\ LET listed ==
               SelectSeq(networkNames(ifaces),
                         LAMBDA x : /\ x \in visible
                                    /\ recursion =>
                                           doNetworkGet(x, m, ServerClustered, editor,
                                                        ifaces).found)
       IN
       got' = [kind |-> "list", recursion |-> recursion, editor |-> editor,
               member |-> m, visible |-> visible, ifaces |-> ifaces,
               linkResults |-> listed,
               fullResults |->
                   IF recursion
                   THEN [k \in 1..Len(listed) |->
                            doNetworkGet(listed[k], m, ServerClustered, editor, ifaces)]
                   ELSE <<>>]
    /\ UNCHANGED <<description, startVars, proj, events, upd, members, net, row,
                   drv, lock, h, healthy, authz, created_events, creators,
                   failures>>

NextG ==
    \/ \E m \in AllMembers, n \in GetNames, targeted, editor \in BOOLEAN,
          ifaces \in SUBSET HostInterfaces :
           networkGet(m, n, targeted, editor, ifaces)
    \/ \E m \in AllMembers, recursion, editor \in BOOLEAN, visible \in ViewSets,
          ifaces \in SUBSET HostInterfaces :
           networksGet(m, recursion, editor, visible, ifaces)

SpecG == InitP /\ [][NextG]_vars

\* This step answers a GET of a record for a caller without edit permission.
ViewerGetSteps ==
    /\ got' # got
    /\ got'.kind = "get"
    /\ ~got'.editor
    /\ got'.resp.found
    /\ got'.resp.managed

\* This step answers a recursive list for a caller without edit permission.
ViewerListSteps ==
    /\ got' # got
    /\ got'.kind = "list"
    /\ got'.recursion
    /\ ~got'.editor

C22_Step ==
    /\ ViewerGetSteps =>
           /\ got'.resp.config = EmptyCfg
           /\ \A c \in PutConfigs :
                  LET other == ManagedResponse(
                                   got'.name,
                                   ServingMember(got'.targeted, got'.member), c,
                                   ServerClustered /\ ~got'.targeted, FALSE)
                  IN
                  /\ other = got'.resp
                  /\ ETag(other) = ETag(got'.resp)
    /\ ViewerListSteps =>
           \A k \in 1..Len(got'.fullResults) :
               got'.fullResults[k].managed =>
                   /\ got'.fullResults[k].config = EmptyCfg
                   /\ \A c \in PutConfigs :
                          ManagedResponse(got'.fullResults[k].name, got'.member, c,
                                          ServerClustered, FALSE)
                              = got'.fullResults[k]

\* C22: the response of a GET of a record and the records of a recursive
\* list, and the entity tag, carry an empty config for a caller without
\* edit permission, and are what they would be for any other config of the
\* record.
C22_ConfigHidden == [][C22_Step]_vars

C22_Witness ==
    /\ got.kind = "list"
    /\ got.recursion
    /\ ~got.editor
    /\ \E k \in 1..Len(got.fullResults) :
           /\ got.fullResults[k].name = "n1"
           /\ got.fullResults[k].managed
           /\ got.fullResults[k].config = EmptyCfg
           /\ NetConfig("n1", got.member)["parent"] = "1"
           /\ NetConfig("n1", got.member)["mtu"] = "1"

C22_WitnessGet ==
    /\ got.kind = "get"
    /\ ~got.editor
    /\ got.targeted
    /\ got.resp.found
    /\ got.resp.managed
    /\ got.resp.config = EmptyCfg
    /\ NetConfig("n1", got.member)["parent"] = "1"

\* This step answers a list for a caller who may view every network.
ListAllSteps ==
    /\ got' # got
    /\ got'.kind = "list"
    /\ got'.visible = Catalog \cup HostInterfaces

\* The names a list has to return: the records of the project and the host
\* interfaces, without the veth pairs.
ExpectedNames(ifaces) == {x \in GetNetworks \cup ifaces : ~HasVethPrefix(x)}

NamesOf(list) == {list[k] : k \in 1..Len(list)}

C23_Step ==
    (ListAllSteps /\ proj = ProjectDefaultName) =>
        /\ NamesOf(got'.linkResults) = ExpectedNames(got'.ifaces)
        /\ Len(got'.linkResults) = Cardinality(ExpectedNames(got'.ifaces))
        /\ got'.recursion =>
               /\ Len(got'.fullResults) = Len(got'.linkResults)
               /\ \A k \in 1..Len(got'.fullResults) :
                      got'.fullResults[k].name = got'.linkResults[k]

StartupNames == {"n1", "n2"}
DepKeys == {"parent", "network"}
StartErrors == {"e1", "e2"}
networkPriorityStandalone == 0
networkPriorityPhysical == 1
networkPriorityLogical == 2

InitS ==
    /\ members = {"a"}
    /\ net = [n \in Catalog |-> NoNet]
    /\ row = [n \in Catalog |-> [m \in AllMembers |-> NoRow]]
    /\ drv = [n \in Catalog |-> [m \in AllMembers |-> "none"]]
    /\ lock = [m \in AllMembers |-> "free"]
    /\ h = [m \in AllMembers |-> Idle]
    /\ healthy = FALSE
    /\ authz = {}
    /\ created_events = [n \in Catalog |-> 0]
    /\ creators = {}
    /\ failures = {}
    /\ proj = ProjectDefaultName
    /\ events = [k \in EventKinds |-> 0]
    /\ upd = NoUpdate
    /\ description = [n \in Catalog |-> ""]
    /\ got = NoGet
    /\ shutdown = NotShutDown
    /\ initNetworks = [p \in Priorities |-> {}]
    /\ \E w \in {"", "e1"} :
           warnings = [n \in Catalog |-> IF n = "n1" THEN w ELSE ""]
    /\ \E deps \in [StartupNames -> SUBSET DepKeys] :
           startup = [pc |-> "off", first |-> TRUE,
                      priority |-> networkPriorityStandalone, todo |-> {},
                      exists |-> StartupNames, pending |-> {},
                      listed |-> {}, deps |-> deps,
                      last |-> [n \in StartupNames |-> ""],
                      tryInstancesStart |-> FALSE, startOk |-> FALSE,
                      instancesStart |-> 0, shut |-> FALSE, spawned |-> 0]

\* GetCreatedNetworkNamesByProject: the records whose status is created.
CreatedNetworkNames == startup.exists \ startup.pending

\* The networks left in a bucket.
remainingNetworks == UNION {initNetworks[p] : p \in Priorities}

\* Every created network is put in the standalone bucket and the first
\* pass begins.
ListCreated ==
    /\ startup.pc = "off"
    /\ initNetworks' = [p \in Priorities |->
                           IF p = networkPriorityStandalone
                           THEN CreatedNetworkNames ELSE {}]
    /\ startup' = [startup EXCEPT !.pc = "pass", !.listed = CreatedNetworkNames,
                                  !.todo = CreatedNetworkNames]
    /\ UNCHANGED <<readVars, shutdown, warnings, proj, events, upd, members, net, row, drv,
                   lock, h, healthy, authz, created_events, creators, failures>>

\* Faulty variant: a network is started in the bucket it is met in.
BucketOf_Stay(d, p) == p

\* The bucket loadAndInitNetwork moves a network with the dependencies d
\* to when it meets it in bucket p; p when the network is to be started.
BucketOf(d, p) ==
    IF "parent" \in d /\ p # networkPriorityPhysical THEN networkPriorityPhysical
    ELSE IF "network" \in d /\ p # networkPriorityLogical THEN networkPriorityLogical
    ELSE p

\* The results driver Start can have.
StartResults == {"ok"} \cup (IF healthy THEN {} ELSE StartErrors)

\* Faulty variant: a successful Start leaves the warning.
WarningAfterStart_Kept(w, res) == IF res = "ok" THEN w ELSE res

\* initNetwork: the warning of a network after a Start with result res.
WarningAfterStart(w, res) == IF res = "ok" THEN "" ELSE res

\* One call of loadAndInitNetwork, for network n of the bucket being walked.
loadAndInitNetwork(n) ==
    /\ startup.pc = "pass"
    /\ n \in startup.todo
    /\ LET p == startup.priority
           to == BucketOf(startup.deps[n], p)
           seen == [startup EXCEPT !.todo = @ \ {n}]
           noted == [seen EXCEPT !.tryInstancesStart = @ \/ ~startup.first]
       IN
       \/ /\ n \notin startup.exists
          /\ initNetworks' = [initNetworks EXCEPT ![p] = @ \ {n}]
          /\ startup' = noted
          /\ UNCHANGED warnings
       \/ /\ n \in startup.exists
          /\ ~healthy
          /\ startup' = seen
          /\ UNCHANGED <<initNetworks, warnings>>
       \/ /\ n \in startup.exists
          /\ to # p
          /\ initNetworks' = [initNetworks EXCEPT ![p] = @ \ {n},
                                                  ![to] = @ \cup {n}]
          /\ startup' = noted
          /\ UNCHANGED warnings
       \/ /\ n \in startup.exists
          /\ to = p
          /\ \E res \in StartResults :
                 /\ warnings' = [warnings EXCEPT ![n] = WarningAfterStart(@, res)]
                 /\ IF res = "ok"
                    THEN /\ initNetworks' = [initNetworks EXCEPT ![p] = @ \ {n}]
                         /\ startup' = [noted EXCEPT !.last[n] = res,
                                                     !.startOk = @ \/ ~startup.first]
                    ELSE /\ UNCHANGED initNetworks
                         /\ startup' = [seen EXCEPT !.last[n] = res]
    /\ UNCHANGED <<readVars, shutdown, proj, events, upd, members, net, row, drv, lock, h,
                   healthy, authz, created_events, creators, failures>>

\* The walk goes on with the next bucket.
NextBucket ==
    /\ startup.pc = "pass"
    /\ startup.todo = {}
    /\ startup.priority < networkPriorityLogical
    /\ startup' = [startup EXCEPT !.priority = @ + 1,
                                  !.todo = initNetworks[startup.priority + 1]]
    /\ UNCHANGED <<readVars, shutdown, initNetworks, warnings, proj, events, upd, members,
                   net, row, drv, lock, h, healthy, authz, created_events,
                   creators, failures>>

\* Faulty variant: the retry task is spawned and kept whatever the buckets
\* hold.
RetryNeeded_Always == TRUE

\* A network is left in a bucket.
RetryNeeded == remainingNetworks # {}

\* The end of a pass: the first pass spawns the retry task, and a retry
\* pass keeps it, while a network is left in a bucket.
EndPass ==
    /\ startup.pc = "pass"
    /\ startup.todo = {}
    /\ startup.priority = networkPriorityLogical
    /\ startup' = [startup EXCEPT
                       !.pc = IF RetryNeeded THEN "wait" ELSE "done",
                       !.spawned = IF startup.first /\ RetryNeeded THEN @ + 1 ELSE @,
                       !.instancesStart =
                           IF startup.tryInstancesStart THEN @ + 1 ELSE @]
    /\ UNCHANGED <<readVars, shutdown, initNetworks, warnings, proj, events, upd, members,
                   net, row, drv, lock, h, healthy, authz, created_events,
                   creators, failures>>

\* The timer of the retry task fires before the shutdown context is done.
Tick ==
    /\ startup.pc = "wait"
    /\ ~startup.shut
    /\ startup' = [startup EXCEPT !.pc = "pass", !.first = FALSE,
                                  !.priority = networkPriorityStandalone,
                                  !.todo = initNetworks[networkPriorityStandalone],
                                  !.tryInstancesStart = FALSE,
                                  !.startOk = FALSE, !.instancesStart = 0]
    /\ UNCHANGED <<readVars, shutdown, initNetworks, warnings, proj, events, upd, members,
                   net, row, drv, lock, h, healthy, authz, created_events,
                   creators, failures>>

\* The daemon's shutdown signal fires.
ShutdownSignal ==
    /\ startup.pc \in {"pass", "wait"}
    /\ ~startup.shut
    /\ startup' = [startup EXCEPT !.shut = TRUE]
    /\ UNCHANGED <<readVars, shutdown, initNetworks, warnings, proj, events, upd, members,
                   net, row, drv, lock, h, healthy, authz, created_events,
                   creators, failures>>

\* The retry task finds the shutdown context done and returns.
ShutdownDone ==
    /\ startup.pc = "wait"
    /\ startup.shut
    /\ startup' = [startup EXCEPT !.pc = "shutdown"]
    /\ UNCHANGED <<readVars, shutdown, initNetworks, warnings, proj, events, upd, members,
                   net, row, drv, lock, h, healthy, authz, created_events,
                   creators, failures>>

\* A request deletes the record of network n.
NetworkDeleted(n) ==
    /\ n \in startup.exists
    /\ startup' = [startup EXCEPT !.exists = @ \ {n}, !.pending = @ \ {n}]
    /\ UNCHANGED <<readVars, shutdown, initNetworks, warnings, proj, events, upd, members,
                   net, row, drv, lock, h, healthy, authz, created_events,
                   creators, failures>>

\* A define-on-target request creates the record of network n again, with
\* the same config and the status pending.
NetworkDefined(n) ==
    /\ n \notin startup.exists
    /\ startup' = [startup EXCEPT !.exists = @ \cup {n}, !.pending = @ \cup {n}]
    /\ UNCHANGED <<readVars, shutdown, initNetworks, warnings, proj, events, upd, members,
                   net, row, drv, lock, h, healthy, authz, created_events,
                   creators, failures>>

StartupStep ==
    \/ ListCreated
    \/ \E n \in StartupNames : loadAndInitNetwork(n)
    \/ NextBucket
    \/ EndPass
    \/ Tick

NextS ==
    \/ StartupStep
    \/ ShutdownSignal
    \/ ShutdownDone
    \/ \E n \in StartupNames : NetworkDeleted(n)
    \/ Heal

SpecS == InitS /\ [][NextS]_vars

\* The engine while networks are deleted and defined again.
NextC ==
    \/ NextS
    \/ \E n \in StartupNames : NetworkDefined(n)

SpecC == InitS /\ [][NextC]_vars

\* The engine and the timer of the retry task keep running.
SpecSL == SpecS /\ WF_vars(StartupStep) /\ WF_vars(ShutdownDone)

(***************************************************************************)
(* Properties of the startup engine.                                       *)
(***************************************************************************)
NoShutdown == ~startup.shut

\* Network n has been started and is in no bucket.
Started(n) == startup.last[n] = "ok" /\ n \notin remainingNetworks

\* The retry task ends once the buckets are empty.
RetryTaskEnds ==
    []NoShutdown =>
        []((startup.pc # "off" /\ remainingNetworks = {}) => <>(startup.pc = "done"))

\* C24 as stated: a network listed at startup that still exists, whichever
\* of config.parent and config.network it has set, is eventually started
\* and in no bucket if from some point on loading, validating and Start
\* succeed and there is no shutdown; and the retry task ends once the
\* buckets are empty.
C24_EventuallyStarted ==
    /\ \A n \in StartupNames :
           (<>[]healthy /\ []NoShutdown /\ [](n \in startup.exists))
               => <>Started(n)
    /\ RetryTaskEnds

\* The same for the networks that do not have both keys set.
C24_StartedUnlessBoth ==
    /\ \A n \in StartupNames :
           (/\ startup.deps[n] # DepKeys
            /\ <>[]healthy /\ []NoShutdown /\ [](n \in startup.exists))
               => <>Started(n)
    /\ RetryTaskEnds

\* A pass has ended and the next one has not begun.
PassEnded == startup.pc \in {"wait", "done", "shutdown"}

\* This step is a call of driver Start for network n.
StartSteps(n) ==
    /\ startup.pc = "pass"
    /\ n \in startup.todo
    /\ n \notin startup'.todo
    /\ n \in startup.exists
    /\ BucketOf(startup.deps[n], startup.priority) = startup.priority
    /\ startup'.last[n] # ""

C25_Inv ==
    PassEnded =>
        \A n \in startup.exists :
            /\ startup.last[n] \in StartErrors =>
                   /\ n \in remainingNetworks
                   /\ warnings[n] = startup.last[n]
            /\ startup.last[n] = "ok" =>
                   /\ n \notin remainingNetworks
                   /\ warnings[n] = ""

C25_Step ==
    \A n \in StartupNames :
        warnings'[n] # warnings[n] =>
            /\ StartSteps(n)
            /\ warnings'[n] # "" =>
                   /\ startup'.last[n] \in StartErrors
                   /\ warnings'[n] = startup'.last[n]
            /\ warnings'[n] = "" => startup'.last[n] = "ok"

StartCalls(n) ==
    /\ startup.pc = "pass"
    /\ n \in startup.todo
    /\ n \notin startup'.todo
    /\ startup'.last[n] # startup.last[n]

C31_Step ==
    /\ \A n \in StartupNames :
           StartCalls(n) =>
               /\ n \in initNetworks[startup.priority]
               /\ "parent" \in startup.deps[n] =>
                      startup.priority = networkPriorityPhysical
               /\ ("parent" \notin startup.deps[n] /\ "network" \in startup.deps[n]) =>
                      startup.priority = networkPriorityLogical
               /\ startup.deps[n] # {} =>
                      startup.priority # networkPriorityStandalone
    /\ (startup.pc = "pass" /\ startup'.pc = "pass"
            /\ startup'.priority # startup.priority) =>
           /\ startup'.priority = startup.priority + 1
           /\ startup.todo = {}
    /\ (startup.pc # "pass" /\ startup'.pc = "pass") =>
           startup'.priority = networkPriorityStandalone

\* C31: a pass walks the buckets in the order standalone, physical,
\* logical, each to its end; Start is called on a network with
\* config.parent only in the physical bucket and on a network with
\* config.network and no config.parent only in the logical bucket, so a
\* network with a dependency is started only after the standalone bucket
\* has been walked.
C31_PriorityOrder == [][C31_Step]_vars

C31_Witness ==
    /\ startup.pc = "pass"
    /\ startup.first
    /\ startup.priority = networkPriorityLogical
    /\ startup.deps["n1"] = {"parent"}
    /\ startup.deps["n2"] = {"network"}
    /\ startup.last["n1"] = "e1"
    /\ startup.last["n2"] = "ok"
    /\ "n1" \in initNetworks[networkPriorityPhysical]

\* C32 as stated: in a retry tick the instance starter is invoked at most
\* once, and only if a driver Start has succeeded during that tick.
C32_StarterOnlyAfterStart ==
    /\ startup.instancesStart <= 1
    /\ startup.instancesStart > 0 => startup.startOk

\* What the engine does: the instance starter is invoked at most once in a
\* tick, and only if a call of loadAndInitNetwork has returned without
\* error during that tick.
C32_StarterOnlyAfterReturn ==
    /\ startup.instancesStart <= 1
    /\ startup.instancesStart > 0 => startup.tryInstancesStart

C33_Step ==
    /\ startup'.spawned # startup.spawned =>
           /\ startup.spawned = 0
           /\ startup'.spawned = 1
           /\ startup.pc = "pass"
           /\ startup.first
           /\ startup.todo = {}
           /\ remainingNetworks # {}
    /\ (startup.shut /\ startup.pc # "pass") => startup'.pc # "pass"

\* C33: a run of networkStartup spawns the retry task at most once, at the
\* end of the first pass and only if a network is left in a bucket; once
\* the shutdown signal has fired no retry pass begins, and the retry task
\* ends even if networks are left in the buckets.
C33_OneRetryTask ==
    /\ [][C33_Step]_vars
    /\ [](/\ startup.spawned <= 1
          /\ startup.pc \in {"wait", "shutdown"} => startup.spawned = 1)
    /\ (startup.shut /\ startup.spawned = 1) ~> (startup.pc \in {"shutdown", "done"})

C33_Witness ==
    /\ startup.pc = "shutdown"
    /\ startup.shut
    /\ startup.spawned = 1
    /\ ~startup.first
    /\ remainingNetworks # {}

(***************************************************************************)
(* networkShutdown: the sweep that stops the managed networks.  shutdown   *)
(* holds its position, the networks on which Stop has been called and      *)
(* those the sweep could not list or load.                                 *)
(***************************************************************************)
SweepProjects == {"default", "p1"}

\* The records of the catalog when the daemon stops, with their status.
SweepCatalog ==
    [p \in SweepProjects |->
        IF p = "default" THEN [n1 |-> "created", n2 |-> "pending"]
        ELSE [n1 |-> "errored"]]

\* Faulty variant: only the created networks are stopped.
ManagedNetworks_Created(p) ==
    {n \in DOMAIN SweepCatalog[p] : SweepCatalog[p][n] = "created"}

\* tx.GetNetworks: the managed networks of a project, of any status.
ManagedNetworks(p) == DOMAIN SweepCatalog[p]

\* The sweep lists the projects, or fails to and returns.
ListProjects ==
    /\ shutdown.pc = "off"
    /\ \E ok \in {TRUE} \cup (IF healthy THEN {} ELSE {FALSE}) :
           shutdown' = [pc |-> IF ok THEN "sweep" ELSE "done", listed |-> ok,
                        projects |-> IF ok THEN SweepProjects ELSE {},
                        project |-> "", nets |-> {}, attempted |-> {},
                        stopped |-> {}, unlisted |-> {}, unloaded |-> {}]
    /\ UNCHANGED <<readVars, initNetworks, warnings, startup, proj, events, upd,
                   members, net, row, drv, lock, h, healthy, authz,
                   created_events, creators, failures>>

\* The sweep lists the networks of the next project, or fails to and goes
\* on with the project after it.
ListNetworks(p) ==
    /\ shutdown.pc = "sweep"
    /\ shutdown.nets = {}
    /\ p \in shutdown.projects
    /\ \/ shutdown' = [shutdown EXCEPT !.projects = @ \ {p}, !.project = p,
                                       !.nets = ManagedNetworks(p)]
       \/ /\ ~healthy
          /\ shutdown' = [shutdown EXCEPT !.projects = @ \ {p},
                                          !.unlisted = @ \cup {p}]
    /\ UNCHANGED <<readVars, initNetworks, warnings, startup, proj, events, upd,
                   members, net, row, drv, lock, h, healthy, authz,
                   created_events, creators, failures>>

\* The sweep loads network n of the current project and calls its Stop.
StopNetwork(n) ==
    /\ shutdown.pc = "sweep"
    /\ n \in shutdown.nets
    /\ LET pn == <<shutdown.project, n>>
           seen == [shutdown EXCEPT !.nets = @ \ {n}]
       IN
       \/ /\ ~healthy
          /\ shutdown' = [seen EXCEPT !.unloaded = @ \cup {pn}]
       \/ /\ ~healthy
          /\ shutdown' = [seen EXCEPT !.attempted = @ \cup {pn}]
       \/ shutdown' = [seen EXCEPT !.attempted = @ \cup {pn},
                                   !.stopped = @ \cup {pn}]
    /\ UNCHANGED <<readVars, initNetworks, warnings, startup, proj, events, upd,
                   members, net, row, drv, lock, h, healthy, authz,
                   created_events, creators, failures>>

\* The sweep has gone through every project.
SweepEnd ==
    /\ shutdown.pc = "sweep"
    /\ shutdown.nets = {}
    /\ shutdown.projects = {}
    /\ shutdown' = [shutdown EXCEPT !.pc = "done"]
    /\ UNCHANGED <<readVars, initNetworks, warnings, startup, proj, events, upd,
                   members, net, row, drv, lock, h, healthy, authz,
                   created_events, creators, failures>>

NextH ==
    \/ ListProjects
    \/ \E p \in SweepProjects : ListNetworks(p)
    \/ \E n \in Names \cup {"n2"} : StopNetwork(n)
    \/ SweepEnd

SpecH == Init /\ [][NextH]_vars

\* The managed networks of every project.
SweepNetworks ==
    UNION {{<<p, n>> : n \in DOMAIN SweepCatalog[p]} : p \in SweepProjects}

\* C34: when the sweep that has listed the projects ends, Stop has been
\* called on every managed network, of any status, of every project,
\* except those of a project whose networks could not be listed and those
\* that could not be loaded; a Stop that fails does not end the sweep.
C34_SweepStopsAll ==
    (shutdown.pc = "done" /\ shutdown.listed) =>
        /\ shutdown.attempted =
               {pn \in SweepNetworks :
                   pn[1] \notin shutdown.unlisted /\ pn \notin shutdown.unloaded}
        /\ shutdown.stopped \subseteq shutdown.attempted

C34_Witness ==
    /\ shutdown.pc = "done"
    /\ shutdown.listed
    /\ shutdown.unlisted = {}
    /\ shutdown.unloaded = {<<"default", "n1">>}
    /\ shutdown.attempted = {<<"default", "n2">>, <<"p1", "n1">>}
    /\ shutdown.stopped = {<<"p1", "n1">>}

(***************************************************************************)
(* Two cluster commits served at the same time.                            *)
(***************************************************************************)
\* The handler of member m holds the create lock of m and waits for the
\* answer of peer p to its create notification.
WaitsFor(m, p) ==
    /\ h[m].pc = "fanout"
    /\ lock[m] # "free"
    /\ p \in h[m].todo

\* C35 as stated: no two members' handlers each hold their own create lock
\* while waiting for a create notification that the other can serve only
\* once that lock is free.
C35_NoMutualWait ==
    ~\E m, p \in AllMembers : m # p /\ WaitsFor(m, p) /\ WaitsFor(p, m)

(***************************************************************************)
(* The network-created lifecycle event.                                    *)
(***************************************************************************)
\* C36: a network's network-created event is emitted at most once while the
\* record lives (no delete happens in this specification, so the count of
\* the events of a name never exceeds one).
C36_CreatedEventOnce ==
    \A n \in Names : created_events[n] <= 1

(***************************************************************************)
(* The network-updated lifecycle event.                                    *)
(***************************************************************************)
\* C37: a network-updated event is emitted only by an update request that
\* was applied: a request answered with a validation error or an error of
\* Update emits none.
C37_UpdatedEventOnSuccess ==
    [][events'["network-updated"] # events["network-updated"]
           => upd'.seq # upd.seq /\ upd'.res = "ok"]_vars

(***************************************************************************)
(* The fan-out payload and the node-specific keys of the members.          *)
(***************************************************************************)
\* C38: every node-specific key in the create request sent to peer p has
\* the value of p's own fragment, never a value of the requester or of
\* another member, and serving one peer leaves the stripped config that the
\* payloads of the other peers are built from as it was.
C38_Inv ==
    \A m, p \in AllMembers :
        InFanout(m, p) =>
            \A k \in NodeKeys :
                PeerPayload(m, p)[k] # Unset =>
                    PeerPayload(m, p)[k] = row[h[m].name][p].cfg[k]

C38_Step ==
    \A m \in AllMembers :
        (h[m].pc = "fanout" /\ h'[m].pc = "fanout") =>
            /\ h'[m].config = h[m].config
            /\ h'[m].nodeConfigs = h[m].nodeConfigs

C39_StartOnlyCreated ==
    [][\A n \in StartupNames :
           (StartSteps(n) /\ startup'.last[n] = "ok"
              /\ n \in remainingNetworks /\ n \notin remainingNetworks')
               => n \in CreatedNetworkNames]_vars

(***************************************************************************)
(* Create requests refused by the checks of the commit.                    *)
(***************************************************************************)
\* C40: a create request without target that the checks of the commit
\* refuse (node-specific key in its config, type other than the record's,
\* record already created) changes nothing: no step of its handler inserts
\* a row, adds an authorizer entry or emits a lifecycle event.
C40_RefusedCreateNoChange ==
    [][\A m \in AllMembers :
           (/\ h'[m] # h[m]
            /\ h[m].pc \in {"pending_all", "commit"}
            /\ CommitPrecheck(h[m]) # "")
               => /\ net' = net
                  /\ row' = row
                  /\ authz' = authz
                  /\ created_events' = created_events]_vars
====
